---- MODULE Spec2Model ----
(***************************************************************************)
(* HanFrame: a model of the undo/redo history hook (useHistory), of the    *)
(* App handlers that drive it (import, select, remove, rotate, batch       *)
(* operations) and of the CanvasView interaction controller (crop and      *)
(* logo drags, rotated-view generation).                                   *)
(*                                                                         *)
(* Conventions.                                                            *)
(*  - `index` is 0-based as in the source; TLA+ sequences are 1-based, so  *)
(*    history[index + 1] is the source's history[index].                   *)
(*  - null is the empty tuple None and a present value v is Some(v).       *)
(*  - A React event handler runs with the values captured by the render    *)
(*    that created it.  A discrete event is followed by a synchronous      *)
(*    re-render, so a handler fired by an event sees the current state;    *)
(*    an async continuation keeps the values it captured when it started.  *)
(*    The hook operators therefore take the captured index (cIndex) or     *)
(*    length (cLen) as an explicit parameter next to the updater's `prev`. *)
(*  - JavaScript numbers are modelled as exact rationals <<n, d>>.         *)
(***************************************************************************)
EXTENDS Integers, Sequences, FiniteSets, TLC

\* ------------------------------------------------------------------ bounds
MaxHist == 4            \* history snapshots kept by the model
MaxPhotos == 2          \* photos in the interactive specifications

\* ----------------------------------------------------------------- helpers
None == <<>>
Some(v) == <<v>>
\* An array hole (reads as undefined), distinct from the empty Collection.
Hole == <<[id |-> -1]>>
IsSome(o) == Len(o) = 1
Val(o) == o[1]

Min(a, b) == IF a < b THEN a ELSE b
Max(a, b) == IF a > b THEN a ELSE b
Abs(a) == IF a < 0 THEN -a ELSE a

\* ------------------------------------------------- numbers as rationals
\* A number is <<n, d>> with d > 0 and gcd(n, d) = 1, so that equal numbers
\* are equal tuples.
RECURSIVE GCD(_, _)
GCD(a, b) == IF b = 0 THEN a ELSE GCD(b, a % b)

Rat(n, d) ==
    LET g == GCD(Abs(n), Abs(d))
        s == IF d < 0 THEN -1 ELSE 1
    IN  <<(s * n) \div g, (s * d) \div g>>

R(n) == <<n, 1>>
RNeg(a) == <<-a[1], a[2]>>
\* The sum, with g the gcd of the denominators; the factors are cancelled
\* before they are multiplied.
RAddG(a, b, g) ==
    Rat(a[1] * (b[2] \div g) + b[1] * (a[2] \div g), (a[2] \div g) * b[2])
RAdd(a, b) == RAddG(a, b, GCD(a[2], b[2]))
RSub(a, b) == RAdd(a, RNeg(b))
\* The product, with g1 = gcd(|a.n|, b.d) and g2 = gcd(|b.n|, a.d).
RMulG(a, b, g1, g2) ==
    Rat((a[1] \div g1) * (b[1] \div g2), (a[2] \div g2) * (b[2] \div g1))
RMul(a, b) == RMulG(a, b, GCD(Abs(a[1]), b[2]), GCD(Abs(b[1]), a[2]))
RDiv(a, b) == RMul(a, Rat(b[2], b[1]))
RLtG(a, b, g) == a[1] * (b[2] \div g) < b[1] * (a[2] \div g)
RLt(a, b) == RLtG(a, b, GCD(a[2], b[2]))
RLe(a, b) == ~RLt(b, a)
RMin(a, b) == IF RLt(b, a) THEN b ELSE a
RMax(a, b) == IF RLt(a, b) THEN b ELSE a
RAbs(a) == <<Abs(a[1]), a[2]>>
RHalf(a) == RDiv(a, R(2))

\* ------------------------------------------------------------- Edit model
\* types.ts DEFAULT_ADJUSTMENTS; two of the six independent keys are kept.
DEFAULT_ADJUSTMENTS == [exposure |-> 0, contrast |-> 0]

\* Natural size of the decoded image of photo `id` (thumb.width/height).
ImgW(id) == IF id % 2 = 1 THEN 200 ELSE 120
ImgH(id) == IF id % 2 = 1 THEN 150 ELSE 160

OrigUrl(id) == <<"orig", id>>
ThumbUrl(id) == <<"thumb", id>>

\* processFiles: the Photo pushed for a successfully loaded file.
NewPhoto(id) ==
    [id |-> id,
     originalUrl |-> OrigUrl(id),
     thumbnailUrl |-> ThumbUrl(id),
     width |-> ImgW(id),
     height |-> ImgH(id),
     rotation |-> 0,
     adjustments |-> DEFAULT_ADJUSTMENTS,
     logos |-> <<>>,
     crop |-> None]

\* CropData of the whole w x h image
FullCrop(w, h) == [x |-> R(0), y |-> R(0), width |-> R(w), height |-> R(h)]

\* types.ts AspectRatio
AspectRatios == {"Free", "1:1", "16:9", "4:3", "3:2"}

\* getRatioValue: the ratio as a number, null for 'Free'
getRatioValue(ar) ==
    CASE ar = "1:1" -> Some(R(1))
      [] ar = "16:9" -> Some(Rat(16, 9))
      [] ar = "4:3" -> Some(Rat(4, 3))
      [] ar = "3:2" -> Some(Rat(3, 2))
      [] OTHER -> None

\* ---------------------------------------------------------------- state
VARIABLES
    history,      \* useHistory: T[]  (sequence of Collections)
    index,        \* useHistory: current index, 0-based
    selectedId,   \* App: selectedId (0 is null)
    imports,      \* App: processFiles calls in flight, each with what it captured
    nextId,       \* ids (uuidv4) handed out so far
    isCropMode,   \* App: isCropMode
    aspectRatio,  \* App: aspectRatio
    isProcessing, \* App: isProcessing (the ProcessingModal is open)
    batch,        \* App: the runBatchOperation call in flight (None: no call)
    displayUrl,   \* CanvasView: displayUrl (None is null)
    isGeneratingView, \* CanvasView: isGeneratingView
    viewJobs,     \* CanvasView: rotated-view generations waiting for onload/toBlob
    viewCount,    \* rotated-view object URLs created so far
    revoked,      \* object URLs passed to URL.revokeObjectURL
    imgRef,       \* CanvasView: imgRef.current, the loaded image's size (None: null)
    loadJobs,     \* CanvasView: image loads waiting for onload, each with its closure
    layout,       \* CanvasView: layout
    localCrop,    \* CanvasView: localCrop (None is null)
    localLogos,   \* CanvasView: localLogos
    dragMode,     \* CanvasView: dragMode
    dragStart,    \* CanvasView: dragStart
    activeLogoId, \* CanvasView: activeLogoId (0 is null)
    snapGuides,   \* CanvasView: snapGuides
    cap,          \* the number of snapshots the specification explores
    filterCache,  \* CanvasView: the filtered canvas, its validity and what built it
    last          \* ghost: the last operation and what it started from

histVars == <<history, index>>
appVars == <<selectedId, imports, nextId>>
uiVars == <<isCropMode, aspectRatio>>
batchVars == <<isProcessing, batch>>
viewVars == <<displayUrl, isGeneratingView, viewJobs, viewCount, revoked>>
canvasVars == <<imgRef, loadJobs, layout, localCrop, localLogos, dragMode, dragStart,
                activeLogoId, snapGuides>>
vars == <<history, index, selectedId, imports, nextId, isCropMode, aspectRatio,
          isProcessing, batch, displayUrl, isGeneratingView, viewJobs,
          viewCount, revoked, imgRef, loadJobs, layout, localCrop, localLogos, dragMode,
          dragStart, activeLogoId, snapGuides, cap, filterCache, last>>

\* ----------------------------------------------------------- useHistory
\* const state = history[index]
Defined == index >= 0 /\ index < Len(history) /\ history[index + 1] # Hole
state == history[index + 1]

canUndo == index > 0
canRedo == index < Len(history) - 1

\* A set that writes the first snapshot instead of the current one.
HistSet_First(prev, cIndex, newState) ==
    [prev EXCEPT ![1] = newState]

\* set: copy = [...prev]; copy[index] = newState   (index is the captured one)
HistSet(prev, cIndex, newState) ==
    IF cIndex < Len(prev)
    THEN [prev EXCEPT ![cIndex + 1] = newState]
    ELSE prev \o [k \in 1..(cIndex - Len(prev)) |-> Hole] \o <<newState>>

\* A push that appends without dropping the redo side.
HistPush_NoTruncate(prev, cIndex, newState) ==
    Append(prev, newState)

\* push: [...prev.slice(0, index + 1), newState]  (index is the captured one)
HistPush(prev, cIndex, newState) ==
    Append(SubSeq(prev, 1, Min(cIndex + 1, Len(prev))), newState)

\* push: setIndex(prev => prev + 1)
IndexPush(prevIndex) == prevIndex + 1

\* An undo without the floor of 0.
IndexUndo_NoFloor(prevIndex) == prevIndex - 1

\* undo: setIndex(prev => Math.max(0, prev - 1))
IndexUndo(prevIndex) == Max(0, prevIndex - 1)

\* A redo whose ceiling is the length instead of the last index.
IndexRedo_OffByOne(cLen, prevIndex) == Min(cLen, prevIndex + 1)

\* redo: setIndex(prev => Math.min(history.length - 1, prev + 1))
IndexRedo(cLen, prevIndex) == Min(cLen - 1, prevIndex + 1)

\* reset: setHistory([newState]); setIndex(0)
HistReset(newState) == <<newState>>

\* ghost: no run of rotations is under way
NoRun == [dir |-> "", n |-> 0, id |-> 0, rot |-> 0, crop |-> None]

\* ghost: the operation being performed and the state it starts from
Ghost(op) ==
    [op |-> op, index |-> index, len |-> Len(history), history |-> history,
     selectedId |-> selectedId, localCrop |-> localCrop,
     localLogos |-> localLogos, dragMode |-> dragMode, run |-> NoRun]

\* ghost: the operation being performed by the App, and the index and length
\* it starts from
Mark(op) ==
    [op |-> op, index |-> index, len |-> Len(history), history |-> <<>>,
     selectedId |-> 0, localCrop |-> None, localLogos |-> <<>>,
     dragMode |-> "none", run |-> NoRun]

\* --------------------------------------- the hook called by its consumer
\* Collections a consumer hands to set/push/reset.
SampleCollections ==
    { <<>>,
      <<NewPhoto(1)>>,
      <<NewPhoto(1), NewPhoto(2)>>,
      <<[NewPhoto(1) EXCEPT !.rotation = 90]>> }

HSet(c) ==
    /\ history' = HistSet(history, index, c)
    /\ index' = index
    /\ last' = Ghost("set")
    /\ UNCHANGED <<appVars, uiVars, batchVars, viewVars, canvasVars, cap, filterCache>>

HPush(c) ==
    /\ Len(history) < cap
    /\ history' = HistPush(history, index, c)
    /\ index' = IndexPush(index)
    /\ last' = Ghost("push")
    /\ UNCHANGED <<appVars, uiVars, batchVars, viewVars, canvasVars, cap, filterCache>>

HUndo ==
    /\ index' = IndexUndo(index)
    /\ history' = history
    /\ last' = Ghost("undo")
    /\ UNCHANGED <<appVars, uiVars, batchVars, viewVars, canvasVars, cap, filterCache>>

\* An undo immediately followed by a redo keeps, in the ghost, the state the
\* undo started from.
HRedo ==
    /\ index' = IndexRedo(Len(history), index)
    /\ history' = history
    /\ last' = IF last.op = "undo" /\ last.index > 0
               THEN [last EXCEPT !.op = "undoRedo"]
               ELSE Ghost("redo")
    /\ UNCHANGED <<appVars, uiVars, batchVars, viewVars, canvasVars, cap, filterCache>>

HReset(c) ==
    /\ history' = HistReset(c)
    /\ index' = 0
    /\ last' = Ghost("reset")
    /\ UNCHANGED <<appVars, uiVars, batchVars, viewVars, canvasVars, cap, filterCache>>

\* CanvasView: useState({ width: 0, height: 0, top: 0, left: 0, scale: 1, key: '' })
InitLayout == [width |-> R(0), height |-> R(0), scale |-> R(1), key |-> None]

\* CanvasView: the initial dragStart.  A pointer position is kept relative to
\* the pointer-down position, so dragStart.x and dragStart.y are the origin.
InitDragStart ==
    [cropX |-> R(0), cropY |-> R(0), cropW |-> R(0), cropH |-> R(0),
     logoX |-> R(0), logoY |-> R(0), logoScale |-> R(0), logoRotation |-> 0]

\* CanvasView: useState<SnapGuides>({ x: null, y: null })
NoGuides == [x |-> None, y |-> None]

\* useHistory<Photo[]>([]), useState(null), and nothing in flight.
\* The filter cache of a CanvasView before its first updateFilterCache.
\* `pixel` is one channel of one pixel of the source image, `context` the
\* kind of context the filtered canvas has handed out, `canvas` what that
\* canvas holds for the pixel (None: nothing was drawn), `valid` is
\* isFilteredCacheValid.current, `cachedProgram` the module-level program of
\* processor.ts, `logged` the console.error calls and `failure` the GPU
\* failure of the last updateFilterCache.  `source` and `adjustments` are
\* the object URL of the image and the Adjustments the canvas was last
\* drawn from, `image` the object URL of the image in imgRef.current.
\* Ghosts: `built` tells that the handler at hand has called
\* updateFilterCache, `read` that its renderCanvas has taken the filtered
\* canvas as its source image.
FilterCacheOf(v, gpu) ==
    [pixel |-> v, useGPU |-> gpu, context |-> "none", canvas |-> None,
     valid |-> FALSE, cachedProgram |-> FALSE, logged |-> 0,
     failure |-> "none", source |-> None, adjustments |-> None,
     image |-> None, built |-> FALSE, read |-> FALSE]

NoFilterCache == FilterCacheOf(0, FALSE)

InitApp ==
    /\ filterCache = NoFilterCache
    /\ history = <<<<>>>>
    /\ index = 0
    /\ selectedId = 0
    /\ imports = {}
    /\ nextId = 1
    /\ isCropMode = FALSE
    /\ aspectRatio = "Free"
    /\ isProcessing = FALSE
    /\ batch = None
    /\ displayUrl = None
    /\ isGeneratingView = FALSE
    /\ viewJobs = {}
    /\ viewCount = 0
    /\ revoked = {}
    /\ imgRef = None
    /\ loadJobs = {}
    /\ layout = InitLayout
    /\ localCrop = None
    /\ localLogos = <<>>
    /\ dragMode = "none"
    /\ dragStart = InitDragStart
    /\ activeLogoId = 0
    /\ snapGuides = NoGuides
    /\ last = [op |-> "init", index |-> 0, len |-> 1, history |-> <<<<>>>>,
               selectedId |-> 0, localCrop |-> None, localLogos |-> <<>>,
               dragMode |-> "none", run |-> NoRun]

InitHistory ==
    /\ InitApp
    /\ cap = MaxHist

NextHistory ==
    \/ \E c \in SampleCollections : HSet(c)
    \/ \E c \in SampleCollections : HPush(c)
    \/ HUndo
    \/ HRedo
    \/ \E c \in SampleCollections : HReset(c)

SpecHistory == InitHistory /\ [][NextHistory]_vars

\* C1: push(c) on a history (h, i) leaves the snapshots h[0..i] followed by c,
\* sets the index to i + 1 and makes c the current state; whatever lay beyond
\* i is gone and canRedo is false.
C1_PushTruncatesAndAppends ==
    [][\A c \in SampleCollections :
          HPush(c) =>
             /\ history' = SubSeq(history, 1, index + 1) \o <<c>>
             /\ index' = index + 1
             /\ index' < Len(history')
             /\ history'[index' + 1] = c
             /\ ~canRedo']_vars

\* A push has acted on a history that had snapshots on its redo side.
C1_Witness ==
    /\ last.op = "push"
    /\ last.index < last.len - 1
    /\ Len(history) = last.index + 2
    /\ ~canRedo

\* C2: where canUndo is true, undo followed by redo makes the current state
\* the Collection it was before the undo and leaves the snapshots unchanged.
C2_UndoRedoRestores ==
    last.op = "undoRedo" =>
        /\ history = last.history
        /\ index = last.index
        /\ Defined
        /\ state = last.history[last.index + 1]

\* An undo from an index above 0 was followed at once by a redo, in the
\* middle of a history (a redo side exists as well).
C2_Witness ==
    /\ last.op = "undoRedo"
    /\ last.index > 0
    /\ last.index < last.len - 1

\* C3: undo at index 0 and redo at the last index change nothing; otherwise
\* undo lowers the index by exactly 1 and redo raises it by exactly 1, the
\* snapshots staying as they are; canUndo is index > 0 and canRedo is
\* index < last index, which is exactly when undo / redo move the index.
C3_UndoRedoBounds ==
    [][/\ HUndo =>
             /\ history' = history
             /\ index' = (IF index = 0 THEN 0 ELSE index - 1)
       /\ HRedo =>
             /\ history' = history
             /\ index' = (IF index = Len(history) - 1 THEN index ELSE index + 1)
       /\ canUndo <=> index > 0
       /\ canRedo <=> index < Len(history) - 1
       /\ canUndo <=> IndexUndo(index) = index - 1
       /\ canRedo <=> IndexRedo(Len(history), index) = index + 1]_vars

\* An undo has acted at index 0 and left the index there.
C3_Witness ==
    /\ last.op = "undo"
    /\ last.index = 0
    /\ index = 0
    /\ Len(history) > 1

\* C4: set(c) replaces the snapshot at the current index by c and nothing
\* else: the number of snapshots, the index, every other snapshot, canUndo
\* and canRedo are unchanged.
C4_SetOverwritesCurrentOnly ==
    [][\A c \in SampleCollections :
          HSet(c) =>
             /\ Len(history') = Len(history)
             /\ index' = index
             /\ history'[index + 1] = c
             /\ \A k \in 1..Len(history) :
                    k # index + 1 => history'[k] = history[k]
             /\ canUndo' = canUndo
             /\ canRedo' = canRedo]_vars

\* A set has acted in the middle of a history and changed the current state.
C4_Witness ==
    /\ last.op = "set"
    /\ index > 0
    /\ index < Len(history) - 1
    /\ history[index + 1] # last.history[last.index + 1]

\* ------------------------------------------------------------------- App
\* bounds of the interactive specifications
MaxImports == 1         \* processFiles calls in flight at once
MaxViews == 2           \* rotated-view object URLs created
MaxAppHist == 3         \* history snapshots of the App specification
MaxLoads == 1           \* image loads pending, from which on the user waits

\* state: photos
photos == state

\* photos.find(p => p.id === id) || null
Find(ps, id) ==
    LET S == {k \in 1..Len(ps) : ps[k].id = id}
    IN  IF S = {} THEN None
        ELSE Some(ps[CHOOSE k \in S : \A j \in S : k <= j])

\* const selectedPhoto = photos.find(p => p.id === selectedId) || null
selectedPhoto == Find(photos, selectedId)

Ids(ps) == {ps[k].id : k \in 1..Len(ps)}

\* photos.map(p => p.id === id ? f(p) : p)
MapPhoto(ps, id, F(_)) ==
    [k \in 1..Len(ps) |-> IF ps[k].id = id THEN F(ps[k]) ELSE ps[k]]

\* photos.map(p => p.id === selectedId ? { ...p, crop } : p)
WithCrop(ps, id, c) == MapPhoto(ps, id, LAMBDA p : [p EXCEPT !.crop = c])

\* photos.map(p => p.id === selectedId ? { ...p, logos } : p)
WithLogos(ps, id, ls) == MapPhoto(ps, id, LAMBDA p : [p EXCEPT !.logos = ls])

\* photos.filter(p => p.id !== id)
RECURSIVE FilterOut(_, _)
FilterOut(ps, id) ==
    IF ps = <<>> THEN <<>>
    ELSE IF ps[1].id = id THEN FilterOut(Tail(ps), id)
         ELSE <<ps[1]>> \o FilterOut(Tail(ps), id)

\* The App renders only while photos is an array: photos.find on undefined
\* throws in render and React unmounts the tree.
Alive == Defined

\* --------------------------------------------------- CanvasView geometry
\* The size of the image behind an object URL: a photo's file <<"orig", id>>,
\* or the rotated view <<"view", k, id, rotation>> drawn from it (canvas width
\* and height swapped when angle % 180 !== 0).
UrlDims(url) ==
    LET id == IF url[1] = "orig" THEN url[2] ELSE url[3]
        rot == IF url[1] = "orig" THEN 0 ELSE url[4]
    IN  IF rot % 180 # 0
        THEN [width |-> ImgH(id), height |-> ImgW(id)]
        ELSE [width |-> ImgW(id), height |-> ImgH(id)]

\* renderCanvas: const padding = 20
Padding == 20
\* container.clientWidth, container.clientHeight
ContW == 200 + 2 * Padding
ContH == 150 + 2 * Padding

\* renderCanvas: the layout it hands to setLayout, and the updater's choice
\* between it and the previous layout.
RenderLayout(prev, img, cropMode, crop, key) ==
    LET srcW == IF cropMode \/ crop = None THEN R(img.width) ELSE Val(crop).width
        srcH == IF cropMode \/ crop = None THEN R(img.height) ELSE Val(crop).height
        availW == R(ContW - Padding * 2)
        availH == R(ContH - Padding * 2)
        scale == RMin(RDiv(availW, srcW), RDiv(availH, srcH))
        drawW == RMul(srcW, scale)
        drawH == RMul(srcH, scale)
    IN  IF /\ prev.key = key
           /\ RLt(RAbs(RSub(prev.width, drawW)), R(1))
           /\ RLt(RAbs(RSub(prev.scale, scale)), Rat(1, 10000))
        THEN prev
        ELSE [width |-> drawW, height |-> drawH, scale |-> scale, key |-> key]

\* the largest k in lo..hi with k * k <= n
RECURSIVE ISqrtIn(_, _, _)
ISqrtIn(n, lo, hi) ==
    IF lo >= hi THEN lo
    ELSE LET m == (lo + hi + 1) \div 2
         IN  IF m * m <= n THEN ISqrtIn(n, m, hi) ELSE ISqrtIn(n, lo, m - 1)

ISqrt(n) == ISqrtIn(n, 0, Min(n, 46340))

\* Math.sqrt: exact on the square of a rational; any other root is rounded
\* (JavaScript rounds it to 53 bits, here it is rounded down to a whole
\* number).
RSqrt(q) ==
    LET m == q[1] * q[2]
        r == ISqrt(m)
    IN  IF r * r = m THEN Rat(r, q[2]) ELSE R(ISqrt(q[1] \div q[2]))

\* A fit whose targetW is Math.sqrt(area), the ratio left out of the root.
FitRatio_NoRatio(area, ratio, imgW, imgH) ==
    LET overW == RLt(R(imgW * imgW), area)
        w1 == IF overW THEN R(imgW) ELSE RSqrt(area)
        h1 == RDiv(w1, ratio)
    IN  IF RLt(R(imgH), h1)
        THEN [width |-> RMul(R(imgH), ratio), height |-> R(imgH)]
        ELSE [width |-> w1, height |-> h1]

\* targetW = Math.sqrt(area * ratio); targetH = targetW / ratio; then
\* "Fit inside limits".  The comparisons of the root are made on the squares.
FitRatio(area, ratio, imgW, imgH) ==
    LET a == RMul(area, ratio)
        overW == RLt(R(imgW * imgW), a)
        w1 == IF overW THEN R(imgW) ELSE RSqrt(a)
        h1 == RDiv(w1, ratio)
        overH == IF overW THEN RLt(R(imgH), h1)
                 ELSE RLt(R(imgH * imgH), RDiv(area, ratio))
    IN  IF overH
        THEN [width |-> RMul(R(imgH), ratio), height |-> R(imgH)]
        ELSE [width |-> w1, height |-> h1]

\* applyAspectRatio, "Clamp position": if (newX < 0) newX = 0
ClampLow(x) == IF RLt(x, R(0)) THEN R(0) ELSE x

\* applyAspectRatio, "Clamp position": if (newX + targetW > imgW) newX = imgW - targetW
ClampHigh(x, w, lim) == IF RLt(R(lim), RAdd(x, w)) THEN RSub(R(lim), w) ELSE x

\* applyAspectRatio: the crop of size f centred on (cx, cy), then clamped
CenteredCrop(f, cx, cy, imgW, imgH) ==
    [x |-> ClampHigh(ClampLow(RSub(cx, RHalf(f.width))), f.width, imgW),
     y |-> ClampHigh(ClampLow(RSub(cy, RHalf(f.height))), f.height, imgH),
     width |-> f.width, height |-> f.height]

\* applyAspectRatio: the crop handed to setLocalCrop and onUpdateCrop
applyAspectRatio(ratio, imgW, imgH, base) ==
    CenteredCrop(FitRatio(RMul(base.width, base.height), ratio, imgW, imgH),
                 RAdd(base.x, RHalf(base.width)),
                 RAdd(base.y, RHalf(base.height)), imgW, imgH)

\* img.onload: the crop of a photo that has none, for the image just loaded
DefaultCrop(ar, imgW, imgH) ==
    IF getRatioValue(ar) = None THEN FullCrop(imgW, imgH)
    ELSE LET f == FitRatio(R(imgW * imgH), Val(getRatioValue(ar)), imgW, imgH)
         IN  [x |-> RHalf(RSub(R(imgW), f.width)),
              y |-> RHalf(RSub(R(imgH), f.height)),
              width |-> f.width, height |-> f.height]

\* ------------------------------------------- CanvasView pointer geometry
\* type DragMode
CropModes == {"move_crop", "nw", "ne", "sw", "se", "n", "s", "e", "w"}
LogoModes == {"move_logo", "scale_logo", "rotate_logo"}

\* dragMode.includes(side) for the resize modes
Sides(mode) ==
    CASE mode = "nw" -> {"n", "w"}
      [] mode = "ne" -> {"n", "e"}
      [] mode = "sw" -> {"s", "w"}
      [] mode = "se" -> {"s", "e"}
      [] mode \in {"n", "s", "e", "w"} -> {mode}
      [] OTHER -> {}

\* handlePointerMove, dragMode === 'move_crop'
CropMove(s, dx, dy, imgW, imgH) ==
    [x |-> RMax(R(0), RMin(RAdd(s.cropX, dx), RSub(R(imgW), s.cropW))),
     y |-> RMax(R(0), RMin(RAdd(s.cropY, dy), RSub(R(imgH), s.cropH))),
     width |-> s.cropW,
     height |-> s.cropH]

\* handlePointerMove, a resize mode: the handle deltas, the ratio lock, the
\* bounds clamps and, last, the minimum size.
CropResize(mode, s, dx, dy, imgW, imgH, ratio, scale) ==
    LET S == Sides(mode)
        horiz == "e" \in S \/ "w" \in S
        vert == "n" \in S \/ "s" \in S
        w0 == IF "w" \in S THEN RSub(s.cropW, dx)
              ELSE IF "e" \in S THEN RAdd(s.cropW, dx) ELSE s.cropW
        x0 == IF "w" \in S THEN RAdd(s.cropX, dx) ELSE s.cropX
        h0 == IF "n" \in S THEN RSub(s.cropH, dy)
              ELSE IF "s" \in S THEN RAdd(s.cropH, dy) ELSE s.cropH
        y0 == IF "n" \in S THEN RAdd(s.cropY, dy) ELSE s.cropY
        minSize == RDiv(R(50), scale)
        lockH == IsSome(ratio) /\ horiz
        lockW == IsSome(ratio) /\ ~horiz /\ vert
        h1 == IF lockH THEN RDiv(w0, Val(ratio)) ELSE h0
        y1 == IF lockH /\ "n" \in S THEN RSub(RAdd(s.cropY, s.cropH), h1) ELSE y0
        w1 == IF lockW THEN RMul(h0, Val(ratio)) ELSE w0
        x1 == IF lockW /\ "w" \in S THEN RSub(RAdd(s.cropX, s.cropW), w1) ELSE x0
        w2 == IF RLt(x1, R(0)) THEN RAdd(w1, x1) ELSE w1
        x2 == IF RLt(x1, R(0)) THEN R(0) ELSE x1
        w3 == IF RLt(R(imgW), RAdd(x2, w2)) THEN RSub(R(imgW), x2) ELSE w2
        h2 == IF RLt(y1, R(0)) THEN RAdd(h1, y1) ELSE h1
        y2 == IF RLt(y1, R(0)) THEN R(0) ELSE y1
        h3 == IF RLt(R(imgH), RAdd(y2, h2)) THEN RSub(R(imgH), y2) ELSE h2
        w4 == IF RLt(w3, minSize) THEN minSize ELSE w3
        h4 == IF RLt(h3, minSize) THEN minSize ELSE h3
    IN  [x |-> x2, y |-> y2, width |-> w4, height |-> h4]

\* handlePointerMove, "Crop Logic": the crop handed to setLocalCrop for a
\* pointer that is (px, py) screen pixels away from the pointer-down position
CropDrag(mode, s, px, py, img, ar, lay) ==
    LET dx == RDiv(R(px), lay.scale)
        dy == RDiv(R(py), lay.scale)
    IN  IF mode = "move_crop"
        THEN CropMove(s, dx, dy, img.width, img.height)
        ELSE CropResize(mode, s, dx, dy, img.width, img.height,
                        getRatioValue(ar), lay.scale)

\* logoImg.width / logoImg.height of the image behind a logo asset URL
LogoAspect(url) == Rat(2, 1)

\* handleAddLogoToPhoto: the new layer (rotation is kept in degrees)
NewLogo(id, url) ==
    [id |-> id, url |-> url, x |-> Rat(1, 2), y |-> Rat(1, 2),
     scale |-> Rat(1, 5), rotation |-> 0]

\* handlePointerMove, move_logo, one axis: the unsnapped position `pos`, the
\* logo's normalized half size and the snap threshold give the position
\* after snapping (centre, then near edge, then far edge) and whether it snapped.
SnapAxis(pos, half, thresh) ==
    LET c == RLt(RAbs(RSub(pos, Rat(1, 2))), thresh)
        p1 == IF c THEN Rat(1, 2) ELSE pos
        lo == ~c /\ RLt(RAbs(RSub(p1, half)), thresh)
        p2 == IF lo THEN half ELSE p1
        hi == ~c /\ ~lo /\ RLt(RAbs(RSub(RAdd(p2, half), R(1))), thresh)
        p3 == IF hi THEN RSub(R(1), half) ELSE p2
    IN  [pos |-> p3, snapped |-> c \/ lo \/ hi]

\* handlePointerMove, move_logo: the moved layer and the snap guides
LogoMove(l, s, px, py, lay) ==
    LET minDim == RMin(lay.width, lay.height)
        renderH == RMul(minDim, l.scale)
        renderW == RMul(renderH, LogoAspect(l.url))
        normHalfW == RDiv(RHalf(renderW), lay.width)
        normHalfH == RDiv(RHalf(renderH), lay.height)
        sx == SnapAxis(RAdd(s.logoX, RDiv(R(px), lay.width)), normHalfW,
                       RDiv(R(12), lay.width))
        sy == SnapAxis(RAdd(s.logoY, RDiv(R(py), lay.height)), normHalfH,
                       RDiv(R(12), lay.height))
    IN  [logo |-> [l EXCEPT
                     !.x = RMax(normHalfW, RMin(sx.pos, RSub(R(1), normHalfW))),
                     !.y = RMax(normHalfH, RMin(sy.pos, RSub(R(1), normHalfH)))],
         guides |-> [x |-> IF sx.snapped THEN Some(sx.pos) ELSE None,
                     y |-> IF sy.snapped THEN Some(sy.pos) ELSE None]]

\* handlePointerMove, scale_logo: factor is currentDist / initialHandleDist
LogoScale(l, s, factor) ==
    [l EXCEPT !.scale = RMax(Rat(1, 50), RMul(s.logoScale, factor))]

\* handlePointerMove, rotate_logo: angle is Math.atan2(...) in degrees
LogoRotate(l, angle) == [l EXCEPT !.rotation = angle + 90]

\* ------------------------------------ utils/processor.ts: the pixel filters
\* The filters are modelled for one channel of one pixel and for Adjustments
\* whose temperature, tint, saturation and vibrance are 0: the channels are
\* then independent of each other.
maxVal == 255
rollOffThreshold == 210
rollOffRange == maxVal - rollOffThreshold

\* Math.pow(2, adj.exposure / 80), for an exposure that is a multiple of 80
exposureMultiplier(e) ==
    IF e >= 0 THEN R(2 ^ (e \div 80)) ELSE Rat(1, 2 ^ ((-e) \div 80))

\* numerator and denominator of Lambert's continued fraction of
\* rollOffRange * Math.tanh(k / rollOffRange), cut after the term 7
TanhNum(k) == k * (212625 + 10 * k * k)
TanhDen(k) == 212625 + 45 * k * k + (k * k * k * k) \div 2025

\* q / d in hundredths, rounded down
Hundredths(q, d) == (q \div d) * 100 + ((q % d) * 100) \div d

\* "Apply Soft Knee Rolloff for highlights", for r an integer or at most the
\* threshold
RollOff(r) ==
    IF RLe(r, R(rollOffThreshold)) THEN r
    ELSE Rat(rollOffThreshold * 100
                 + Hundredths(TanhNum(r[1] \div r[2] - rollOffThreshold),
                              TanhDen(r[1] \div r[2] - rollOffThreshold)),
             100)

\* contrastFactor; None is the Infinity of a division by zero
contrastFactor(c) ==
    IF 259 - c = 0 THEN None
    ELSE Some(Rat(259 * (c + 255), 255 * (259 - c)))

\* const clamp = (val, min, max) => Math.min(Math.max(val, min), max)
clamp(val, lo, hi) == RMin(RMax(val, lo), hi)

\* the store into the Uint8ClampedArray: round to nearest, ties to even
RoundHalfEven(f, rem2, d) ==
    IF rem2 > d THEN f + 1
    ELSE IF rem2 < d THEN f
    ELSE IF f % 2 = 0 THEN f ELSE f + 1
ToUint8(x) == RoundHalfEven(x[1] \div x[2], 2 * (x[1] % x[2]), x[2])

\* "--- Contrast ---" and the store, for the channel r after the rolloff.
\* With an infinite factor the channel is -Infinity, NaN or +Infinity, stored
\* as 0, 0 or 255.
Contrasted(cf, r) ==
    IF cf = None THEN (IF RLt(R(128), r) THEN maxVal ELSE 0)
    ELSE ToUint8(clamp(RAdd(RMul(Val(cf), RSub(r, R(128))), R(128)),
                       R(0), R(maxVal)))

\* applyImageFilters: the value stored for a channel that held v
applyImageFilters(v, adj) ==
    Contrasted(contrastFactor(adj.contrast),
               RollOff(RMul(R(v), exposureMultiplier(adj.exposure))))

\* FRAGMENT_SHADER: the value drawn for a channel that held v
ShaderChannel(v, adj) ==
    ToUint8(clamp(
        RMul(R(maxVal),
             RAdd(RMul(RSub(RMul(Rat(v, maxVal),
                                 exposureMultiplier(adj.exposure)),
                            Rat(1, 2)),
                       Rat(100 + adj.contrast, 100)),
                  Rat(1, 2))),
        R(0), R(maxVal)))

\* ---- CanvasView: the filter cache
\* applyWebGLFilters on the filtered canvas: canvas.getContext('webgl') gives
\* a context when the canvas already has a WebGL one, or has none and the
\* browser can make one (gl)
WebGLContext(f, gl) == f.context = "webgl" \/ (f.context = "none" /\ gl)

\* the two createShader calls and createProgram of a call that has no
\* cachedProgram: what went wrong
ProgramFailure(f, vs, fs, link) ==
    IF f.cachedProgram THEN "none"
    ELSE IF ~vs \/ ~fs THEN "shader"
    ELSE IF ~link THEN "link"
    ELSE "none"

\* the console.error calls of createShader and createProgram
ProgramLogs(f, vs, fs, link) ==
    IF f.cachedProgram THEN 0
    ELSE IF ~vs \/ ~fs THEN (IF vs THEN 0 ELSE 1) + (IF fs THEN 0 ELSE 1)
    ELSE IF ~link THEN 1
    ELSE 0

\* updateFilterCache with useGPU, the context creation failing:
\* applyWebGLFilters throws, the catch logs and filters on the CPU
GpuFallback(f, adj) ==
    [f EXCEPT !.context = "2d",
              !.canvas = Some(applyImageFilters(f.pixel, adj)),
              !.valid = TRUE, !.logged = 1, !.failure = "context"]

\* updateFilterCache with useGPU, the context at hand: applyWebGLFilters
\* returns before drawing when a shader or the program is missing
GpuDrawn(f, adj, failure, logs, link) ==
    [f EXCEPT !.context = "webgl",
              !.cachedProgram = IF failure = "shader" THEN FALSE
                                ELSE IF f.cachedProgram THEN TRUE ELSE link,
              !.canvas = IF failure = "none"
                         THEN Some(ShaderChannel(f.pixel, adj)) ELSE @,
              !.valid = TRUE, !.logged = logs, !.failure = failure]

\* updateFilterCache without useGPU: nothing happens when the canvas cannot
\* give a 2d context
CpuDrawn(f, adj) ==
    IF f.context = "webgl" THEN [f EXCEPT !.logged = 0, !.failure = "none"]
    ELSE [f EXCEPT !.context = "2d",
                   !.canvas = Some(applyImageFilters(f.pixel, adj)),
                   !.valid = TRUE, !.logged = 0, !.failure = "none"]

\* updateFilterCache, the image being loaded; gl, vs, fs and link tell
\* whether the WebGL context, the two shaders and the program can be made
updateFilterCache(f, adj, gl, vs, fs, link) ==
    IF ~f.useGPU THEN CpuDrawn(f, adj)
    ELSE IF ~WebGLContext(f, gl) THEN GpuFallback(f, adj)
    ELSE GpuDrawn(f, adj, ProgramFailure(f, vs, fs, link),
                  ProgramLogs(f, vs, fs, link), link)

\* document.createElement('canvas') for filteredCanvasRef.current
NewCanvas(f) ==
    [f EXCEPT !.context = "none", !.canvas = None,
              !.source = None, !.adjustments = None]

\* updateFilterCache draws on the canvas: not without a 2d context on the
\* CPU path, not without a program on the GPU path
Draws(f, g) ==
    IF ~f.useGPU THEN f.context # "webgl" ELSE g.failure \in {"none", "context"}

Stamped(f, g, adj, url) ==
    [g EXCEPT !.built = TRUE,
              !.source = IF Draws(f, g) THEN Some(url) ELSE @,
              !.adjustments = IF Draws(f, g) THEN Some(adj) ELSE @]

\* updateFilterCache() with the image of object URL `url` in imgRef.current
Filtered(f, adj, url, gl, vs, fs, link) ==
    Stamped(f, updateFilterCache(f, adj, gl, vs, fs, link), adj, url)

\* const sourceImage = (isFilteredCacheValid.current && filteredCanvasRef.current)
\*                         ? filteredCanvasRef.current : img
ReadBy(f) == [f EXCEPT !.read = f.valid]

Outcomes == BOOLEAN \X BOOLEAN \X BOOLEAN \X BOOLEAN

\* ---------------------------------------------------- render and effects
\* The React state of App and CanvasView, with the callbacks CanvasView has
\* pending, as one record: a handler's state updates are an EXCEPT on it.
Now ==
    [history |-> history, index |-> index, selectedId |-> selectedId,
     isCropMode |-> isCropMode, aspectRatio |-> aspectRatio,
     displayUrl |-> displayUrl, isGeneratingView |-> isGeneratingView,
     viewJobs |-> viewJobs, imgRef |-> imgRef, loadJobs |-> loadJobs,
     layout |-> layout, localCrop |-> localCrop, localLogos |-> localLogos,
     dragMode |-> dragMode, dragStart |-> dragStart,
     activeLogoId |-> activeLogoId, snapGuides |-> snapGuides,
     filterCache |-> [filterCache EXCEPT !.built = FALSE, !.read = FALSE]]

\* selectedPhoto of a state record (None as well when photos is undefined)
PhotoOf(s) ==
    IF s.index >= 0 /\ s.index < Len(s.history) /\ s.history[s.index + 1] # Hole
    THEN Find(s.history[s.index + 1], s.selectedId)
    ELSE None

\* img.onload of the image load effect calls onUpdateCrop
LoadSetsCrop(j) == j.isCropMode /\ j.crop = None

\* {selectedPhoto ? <CanvasView .../> : ...}: with no selected photo the
\* CanvasView is unmounted and its state is gone.  The callbacks it left
\* pending can no longer update it; an image load that will call
\* onUpdateCrop still reaches the App.
Unmounted(s) ==
    [s EXCEPT !.displayUrl = None, !.isGeneratingView = FALSE,
              !.viewJobs = {}, !.imgRef = None,
              !.loadJobs = {[j EXCEPT !.dead = TRUE] : j \in {k \in @ : LoadSetsCrop(k)}},
              !.layout = InitLayout, !.localCrop = None, !.localLogos = <<>>,
              !.dragMode = "none", !.dragStart = InitDragStart,
              !.activeLogoId = 0, !.snapGuides = NoGuides,
              !.filterCache = [FilterCacheOf(s.filterCache.pixel, s.filterCache.useGPU)
                                  EXCEPT !.cachedProgram = s.filterCache.cachedProgram]]

\* The image load effect's new Image() with the values its onload closes
\* over; the fields onload will not read are left blank.
LoadJob(s, ph) ==
    LET sets == s.isCropMode /\ ph.crop = None
    IN  [url |-> Val(s.displayUrl),
         isCropMode |-> s.isCropMode,
         crop |-> ph.crop,
         aspectRatio |-> IF ph.crop = None THEN s.aspectRatio ELSE "Free",
         id |-> ph.id,
         rotation |-> ph.rotation,
         adjustments |-> ph.adjustments,
         photos |-> IF sets THEN s.history[s.index + 1] ELSE <<>>,
         selectedId |-> IF sets THEN s.selectedId ELSE 0,
         index |-> IF sets THEN s.index ELSE 0,
         dead |-> FALSE]

\* The dependencies of CanvasView's effects: TRUE when the effect runs, i.e.
\* on mount or when a dependency differs from the previous render (`old` is
\* the photo of the previous render).
DepLogos(mount, old, ph) == mount \/ old.id # ph.id \/ old.logos # ph.logos

DepIdRotation(mount, old, ph) ==
    mount \/ <<old.id, old.rotation>> # <<ph.id, ph.rotation>>

DepUrlRotation(mount, old, ph) ==
    mount \/ <<old.originalUrl, old.rotation>> # <<ph.originalUrl, ph.rotation>>

DepCropSync(mount, prev, cur, old, ph) ==
    mount \/ <<prev.isCropMode, old.crop, prev.dragMode>>
                # <<cur.isCropMode, ph.crop, cur.dragMode>>

DepRatio(mount, prev, cur) ==
    mount \/ <<prev.aspectRatio, prev.layout.key>>
                # <<cur.aspectRatio, cur.layout.key>>

\* renderCanvas's dependencies together with those of updateFilterCache
DepRender(mount, prev, cur, old, ph) ==
    mount \/ <<old.crop, prev.localLogos, prev.isCropMode, prev.activeLogoId,
                old.id, old.rotation, old.adjustments>>
                # <<ph.crop, cur.localLogos, cur.isCropMode, cur.activeLogoId,
                    ph.id, ph.rotation, ph.adjustments>>

DepLoad(mount, prev, cur, old, ph) ==
    \/ DepRender(mount, prev, cur, old, ph)
    \/ prev.displayUrl # cur.displayUrl
    \/ prev.aspectRatio # cur.aspectRatio

\* "2. Handle Aspect Ratio Changes": the effect calls applyAspectRatio
RatioApplies(mount, prev, cur, ph) ==
    /\ DepRatio(mount, prev, cur)
    /\ cur.isCropMode /\ cur.localCrop # None
    /\ getRatioValue(cur.aspectRatio) # None
    /\ cur.imgRef # None
    /\ cur.layout.key = Some(<<ph.id, ph.rotation>>)

RatioCrop(cur) ==
    Some(applyAspectRatio(Val(getRatioValue(cur.aspectRatio)),
                          Val(cur.imgRef).width, Val(cur.imgRef).height,
                          Val(cur.localCrop)))

\* localCrop after, in this order, "Reset local crop momentarily when photo
\* changes", "1. Initialize & Sync Local Crop state" and "2. Handle Aspect
\* Ratio Changes"
EffLocalCrop(mount, prev, cur, old, ph) ==
    IF RatioApplies(mount, prev, cur, ph) THEN RatioCrop(cur)
    ELSE IF DepCropSync(mount, prev, cur, old, ph) /\ cur.isCropMode
            /\ cur.imgRef # None /\ ph.crop = None /\ cur.localCrop = None
    THEN Some(FullCrop(Val(cur.imgRef).width, Val(cur.imgRef).height))
    ELSE IF DepCropSync(mount, prev, cur, old, ph) /\ cur.isCropMode
            /\ cur.dragMode = "none" /\ ph.crop # None
    THEN ph.crop
    ELSE IF DepIdRotation(mount, old, ph) THEN None
    ELSE cur.localCrop

\* applyAspectRatio: onUpdateCrop(newCrop), i.e. handleUpdateCrop's setHistory
EffHistory(mount, prev, cur, ph) ==
    IF RatioApplies(mount, prev, cur, ph)
    THEN HistSet(cur.history, cur.index,
                 WithCrop(cur.history[cur.index + 1], cur.selectedId, RatioCrop(cur)))
    ELSE cur.history

\* "Reset local crop momentarily when photo changes":
\* isFilteredCacheValid.current = false
Invalidated(f, dep) == IF dep THEN [f EXCEPT !.valid = FALSE] ELSE f

\* "Adjustments change effect": a new canvas for filteredCanvasRef.current
\* and updateFilterCache(), which returns at once while no image is loaded
\* (the WebGL calls of a rebuild succeed)
Rebuilt(f, adj, loaded) ==
    IF loaded
    THEN Filtered(NewCanvas(f), adj, Val(f.image), TRUE, TRUE, TRUE, TRUE)
    ELSE NewCanvas(f)

\* renderCanvas() draws when the canvas is rendered and an image is loaded
Drawn(f, draws) == IF draws THEN ReadBy(f) ELSE f

\* the filter cache after the effects on [photo.id, photo.rotation] and on
\* [updateFilterCache, renderCanvas, useGPU]
EffCache(mount, prev, cur, old, ph) ==
    IF DepRender(mount, prev, cur, old, ph)
    THEN Drawn(Rebuilt(Invalidated(cur.filterCache, DepIdRotation(mount, old, ph)),
                       ph.adjustments, cur.imgRef # None),
               ~cur.isGeneratingView /\ cur.imgRef # None)
    ELSE Invalidated(cur.filterCache, DepIdRotation(mount, old, ph))

\* "0. Handle Rotation (Orientation)": a view generation to start
ViewJobOf(ph) == [url |-> ph.originalUrl, rotation |-> ph.rotation]

\* The effects of one commit of a mounted CanvasView: `prev` is the state of
\* the previous render and `old` its photo, `cur` the state just rendered and
\* `ph` its photo.  An effect reads the values of `cur`, and its state
\* updates are applied in the order of the effects.
EffectsOf(mount, prev, cur, old, ph) ==
    [cur EXCEPT
        \* Sync local logos
        !.localLogos = IF DepLogos(mount, old, ph) THEN ph.logos ELSE @,
        !.localCrop = EffLocalCrop(mount, prev, cur, old, ph),
        \* 0. Handle Rotation (Orientation)
        !.displayUrl = IF DepUrlRotation(mount, old, ph) /\ ph.rotation = 0
                       THEN Some(ph.originalUrl) ELSE @,
        !.isGeneratingView = IF DepUrlRotation(mount, old, ph) /\ ph.rotation # 0
                             THEN TRUE ELSE @,
        !.viewJobs = IF DepUrlRotation(mount, old, ph) /\ ph.rotation # 0
                     THEN @ \cup {ViewJobOf(ph)} ELSE @,
        !.history = EffHistory(mount, prev, cur, ph),
        !.filterCache = EffCache(mount, prev, cur, old, ph),
        \* renderCanvas() (it returns early while the canvas is not rendered
        \* or no image is loaded)
        !.layout = IF /\ DepRender(mount, prev, cur, old, ph)
                      /\ ~cur.isGeneratingView /\ cur.imgRef # None
                   THEN RenderLayout(@, Val(cur.imgRef), cur.isCropMode, ph.crop,
                                     Some(<<ph.id, ph.rotation>>))
                   ELSE @,
        \* Image Load Effect
        !.loadJobs = IF DepLoad(mount, prev, cur, old, ph) /\ cur.displayUrl # None
                     THEN @ \cup {LoadJob(cur, ph)} ELSE @]

\* The effects of one commit.  An effect runs on mount and when one of its
\* dependencies differs from the previous render.
Effects(prev, cur) ==
    IF PhotoOf(cur) = None THEN Unmounted(cur)
    ELSE IF PhotoOf(prev) = None
    THEN EffectsOf(TRUE, prev, cur, Val(PhotoOf(cur)), Val(PhotoOf(cur)))
    ELSE EffectsOf(FALSE, prev, cur, Val(PhotoOf(prev)), Val(PhotoOf(cur)))

\* Renders and effects until no effect changes the state any more.
RECURSIVE Settle(_, _)
SettleStep(cur, n) == IF n = cur THEN cur ELSE Settle(cur, n)

Settle(prev, cur) == SettleStep(cur, Effects(prev, cur))

\* The state updates of one handler (in `cur`), the re-render and the effects.
Commit(cur) ==
    \E r \in {Settle(Now, cur)} :
        /\ history' = r.history
        /\ index' = r.index
        /\ selectedId' = r.selectedId
        /\ isCropMode' = r.isCropMode
        /\ aspectRatio' = r.aspectRatio
        /\ displayUrl' = r.displayUrl
        /\ isGeneratingView' = r.isGeneratingView
        /\ viewJobs' = r.viewJobs
        /\ imgRef' = r.imgRef
        /\ loadJobs' = r.loadJobs
        /\ layout' = r.layout
        /\ localCrop' = r.localCrop
        /\ localLogos' = r.localLogos
        /\ dragMode' = r.dragMode
        /\ dragStart' = r.dragStart
        /\ activeLogoId' = r.activeLogoId
        /\ snapGuides' = r.snapGuides
        /\ filterCache' = r.filterCache

\* what Commit leaves alone
restVars == <<imports, nextId, isProcessing, batch, viewCount, revoked, cap>>

\* ghost of a callback that is not a user operation: a run of rotations
\* and a slider gesture go on across it
GhostAsync(op) ==
    IF last.op = "adjustmentChange" THEN last
    ELSE [Mark(op) EXCEPT !.run = last.run]

\* The user can act: the App is rendered and the ProcessingModal (a fixed
\* full-window overlay) is closed.  The user does not act while MaxLoads
\* image loads are pending.
Interactive == Alive /\ ~isProcessing /\ Cardinality(loadJobs) < MaxLoads

\* The controls outside the canvas can be used: during a drag the pointer
\* is captured by the canvas container (setPointerCapture).
ControlsUsable == Interactive /\ dragMode = "none"

\* The Sidebar shows its controls only for a selected photo.
SidebarShown == ControlsUsable /\ selectedPhoto # None

\* CanvasView renders its container and canvas (not the "Rotating View..."
\* spinner).
CanvasShown == Interactive /\ selectedPhoto # None /\ ~isGeneratingView

\* ---- CanvasView, effect "0. Handle Rotation": img.onload and canvas.toBlob
\* A setDisplayUrl updater that never revokes the previous URL.
RevokedByUpdater_Never(prev, jobUrl) == {}

\* setDisplayUrl(prev => { if (prev && prev !== photo.originalUrl)
\*                           URL.revokeObjectURL(prev); return newUrl; })
\* with photo the one captured by the effect: the URLs it revokes.
RevokedByUpdater(prev, jobUrl) ==
    IF IsSome(prev) /\ Val(prev) # jobUrl THEN {Val(prev)} ELSE {}

\* URL.createObjectURL(blob) for the k-th rotated view, drawn from job j
ViewUrl(k, j) == <<"view", k, j.url[2], j.rotation>>

\* img.onload + canvas.toBlob of a rotated-view generation, blob present.
\* The image loads only from a URL that has not been revoked.
ViewJobDone(j) ==
    /\ Alive
    /\ j \in viewJobs
    /\ j.url \notin revoked
    /\ viewCount < MaxViews
    /\ viewCount' = viewCount + 1
    /\ revoked' = revoked \cup RevokedByUpdater(displayUrl, j.url)
    /\ Commit([Now EXCEPT !.displayUrl = Some(ViewUrl(viewCount + 1, j)),
                          !.isGeneratingView = FALSE,
                          !.viewJobs = @ \ {j}])
    /\ last' = GhostAsync("viewJobDone")
    /\ UNCHANGED <<imports, nextId, isProcessing, batch, cap>>

\* The same callback when toBlob hands over no blob.
ViewJobNoBlob(j) ==
    /\ Alive
    /\ j \in viewJobs
    /\ j.url \notin revoked
    /\ Commit([Now EXCEPT !.isGeneratingView = FALSE, !.viewJobs = @ \ {j}])
    /\ last' = GhostAsync("viewJobNoBlob")
    /\ UNCHANGED restVars

\* ---- CanvasView, "Image Load Effect": img.onload
\* imgRef.current = img; the crop is photo.crop or the default crop of the
\* loaded image; in crop mode setLocalCrop(newCrop) and, for a photo without
\* crop, onUpdateCrop(newCrop) (handleUpdateCrop: a set); then renderCanvas()
\* of the same closure.  A load left by an unmounted CanvasView (dead) only
\* reaches the App.  A revoked URL does not load: no onload, the load is over.
Loaded(s, j) ==
    LET img == UrlDims(j.url)
        newCrop == IF j.crop # None THEN j.crop
                   ELSE Some(DefaultCrop(j.aspectRatio, img.width, img.height))
        h2 == IF LoadSetsCrop(j)
              THEN HistSet(s.history, j.index, WithCrop(j.photos, j.selectedId, newCrop))
              ELSE s.history
    IN  IF j.dead
        THEN [s EXCEPT !.history = h2, !.loadJobs = @ \ {j}]
        ELSE [s EXCEPT
                 !.imgRef = Some(img),
                 !.filterCache = Drawn(Filtered([@ EXCEPT !.image = Some(j.url)],
                                                j.adjustments, j.url,
                                                TRUE, TRUE, TRUE, TRUE),
                                       ~s.isGeneratingView),
                 !.localCrop = IF j.isCropMode THEN newCrop ELSE @,
                 !.history = h2,
                 !.layout = IF s.isGeneratingView THEN @
                            ELSE RenderLayout(@, img, j.isCropMode, j.crop,
                                              Some(<<j.id, j.rotation>>)),
                 !.loadJobs = @ \ {j}]

ImgLoad(j) ==
    /\ Alive
    /\ j \in loadJobs
    /\ IF j.url \in revoked
       THEN Commit([Now EXCEPT !.loadJobs = @ \ {j}])
       ELSE Commit(Loaded(Now, j))
    /\ last' = GhostAsync("imgLoad")
    /\ UNCHANGED restVars

\* ---- processFiles
\* The call starts with n files whose ids and object URLs are nextId ..
\* nextId+n-1; `ok` are the files whose thumbnail loads.  It keeps the
\* photos, selectedId and pushHistory (hence index) of the render it began in.
ImportStart(n, ok) ==
    /\ ControlsUsable
    /\ Cardinality(imports) < MaxImports
    /\ n >= 1
    /\ nextId + n - 1 <= MaxPhotos
    /\ ok \subseteq nextId..(nextId + n - 1)
    /\ imports' = imports \cup
          {[photos |-> photos, selectedId |-> selectedId, index |-> index,
            files |-> nextId..(nextId + n - 1), ok |-> ok]}
    /\ nextId' = nextId + n
    /\ last' = Mark("importStart")
    /\ UNCHANGED <<histVars, selectedId, uiVars, batchVars, viewVars,
                   canvasVars, cap, filterCache>>

\* the ids of set S in increasing order
RECURSIVE SortedSeq(_)
SortedSeq(S) ==
    IF S = {} THEN <<>>
    ELSE LET m == CHOOSE x \in S : \A y \in S : x <= y
         IN  <<m>> \o SortedSeq(S \ {m})

NewPhotos(ok) == [k \in 1..Cardinality(ok) |-> NewPhoto(SortedSeq(ok)[k])]

\* The end of the call: the object URLs of the files that failed have been
\* revoked; if any photo loaded, pushHistory([...photos, ...newPhotos]) and,
\* when nothing was selected at the start, select the first new photo.
ImportFinish(t) ==
    /\ Alive
    /\ t \in imports
    /\ Len(history) < cap
    /\ imports' = imports \ {t}
    /\ revoked' = revoked \cup {OrigUrl(f) : f \in t.files \ t.ok}
    /\ IF t.ok # {}
       THEN Commit([Now EXCEPT
                !.history = HistPush(@, t.index, t.photos \o NewPhotos(t.ok)),
                !.index = IndexPush(@),
                !.selectedId = IF t.selectedId = 0 THEN SortedSeq(t.ok)[1] ELSE @])
       ELSE Commit(Now)
    /\ last' = GhostAsync("importFinish")
    /\ UNCHANGED <<nextId, isProcessing, batch, viewCount, cap>>

\* ---- Filmstrip: onClick={() => onSelect(photo.id)}, onSelect={setSelectedId}
SelectPhoto(id) ==
    /\ ControlsUsable
    /\ id \in Ids(photos)
    /\ id # selectedId
    /\ Commit([Now EXCEPT !.selectedId = id])
    /\ last' = Mark("select")
    /\ UNCHANGED restVars

\* ---- handleRemovePhoto
RemovePhoto(id) ==
    /\ ControlsUsable
    /\ id \in Ids(photos)
    /\ Len(history) < cap
    /\ Commit([Now EXCEPT
           !.history = HistPush(@, index, FilterOut(photos, id)),
           !.index = IndexPush(@),
           !.selectedId = IF @ = id THEN 0 ELSE @])
    /\ last' = Mark("remove")
    /\ UNCHANGED restVars

\* A rotate right that adds 90 without wrapping at 360.
RotatedRight_NoWrap(p) == [p EXCEPT !.rotation = p.rotation + 90, !.crop = None]

\* handleRotateRight: { ...p, rotation: (current + 90) % 360, crop: null }
RotatedRight(p) ==
    [p EXCEPT !.rotation = (p.rotation + 90) % 360, !.crop = None]

\* handleRotateLeft: { ...p, rotation: (current - 90 + 360) % 360, crop: null }
RotatedLeft(p) ==
    [p EXCEPT !.rotation = (p.rotation - 90 + 360) % 360, !.crop = None]

\* ghost: the run of rotations in direction dir that this rotation continues
\* or starts
Run(dir) ==
    IF last.run.dir = dir /\ last.run.id = selectedId
    THEN [last.run EXCEPT !.n = @ + 1]
    ELSE [dir |-> dir, n |-> 1, id |-> selectedId,
          rot |-> Val(selectedPhoto).rotation, crop |-> Val(selectedPhoto).crop]

RotateRight ==
    /\ SidebarShown
    /\ Len(history) < cap
    /\ Commit([Now EXCEPT
           !.history = HistPush(@, index, MapPhoto(photos, selectedId, RotatedRight)),
           !.index = IndexPush(@)])
    /\ last' = [Mark("rotateRight") EXCEPT !.run = Run("right")]
    /\ UNCHANGED restVars

RotateLeft ==
    /\ SidebarShown
    /\ Len(history) < cap
    /\ Commit([Now EXCEPT
           !.history = HistPush(@, index, MapPhoto(photos, selectedId, RotatedLeft)),
           !.index = IndexPush(@)])
    /\ last' = [Mark("rotateLeft") EXCEPT !.run = Run("left")]
    /\ UNCHANGED restVars

\* ---- header buttons: onClick={undo} disabled={!canUndo}, and redo
Undo ==
    /\ ControlsUsable
    /\ canUndo
    /\ Commit([Now EXCEPT !.index = IndexUndo(@)])
    /\ last' = Mark("undo")
    /\ UNCHANGED restVars

Redo ==
    /\ ControlsUsable
    /\ canRedo
    /\ Commit([Now EXCEPT !.index = IndexRedo(Len(history), @)])
    /\ last' = Mark("redo")
    /\ UNCHANGED restVars

\* ---- Sidebar: toggleCropMode={() => setIsCropMode(!isCropMode)}
ToggleCropMode ==
    /\ SidebarShown
    /\ Commit([Now EXCEPT !.isCropMode = ~@])
    /\ last' = Mark("toggleCropMode")
    /\ UNCHANGED restVars

\* ---- Sidebar: the ratio buttons, shown in crop mode
SetAspectRatio(ar) ==
    /\ SidebarShown
    /\ isCropMode
    /\ ar # aspectRatio
    /\ Commit([Now EXCEPT !.aspectRatio = ar])
    /\ last' = Mark("setAspectRatio")
    /\ UNCHANGED restVars

\* ------------------------------------------------ CanvasView interaction
\* bounds of the pointer input
MaxLogos == 1           \* logos added to photos
\* Pointer events of a drag: the pointer is (px, py) screen pixels away from
\* the pointer-down position; for a drag of a logo handle, angle is what
\* Math.atan2 gives for it in degrees and factor is currentDist /
\* initialHandleDist.
Pointers ==
    { [px |-> 160, py |-> 0, angle |-> 45, factor |-> R(2)],
      [px |-> -40, py |-> 40, angle |-> -90, factor |-> Rat(1, 100)],
      [px |-> 0, py |-> -160, angle |-> 45, factor |-> Rat(1, 2)],
      [px |-> 40, py |-> 0, angle |-> 0, factor |-> R(1)] }
\* logo assets of the Sidebar (uploadedLogos)
LogoUrls == {<<"logo", 1>>}

\* The crop overlay is rendered: isCropMode && localCrop && isLayoutSynced
CropOverlayShown ==
    /\ CanvasShown
    /\ isCropMode
    /\ localCrop # None
    /\ layout.key = Some(<<Val(selectedPhoto).id, Val(selectedPhoto).rotation>>)

\* The handles of the overlay: the box, the corners and, for 'Free', the edges
Handles ==
    {"move_crop", "nw", "ne", "sw", "se"}
        \cup (IF aspectRatio = "Free" THEN {"n", "s", "w", "e"} ELSE {})

\* handleCropPointerDown(e, mode).  There is one pointer: it goes down when
\* no drag is under way.
CropPointerDown(mode) ==
    /\ CropOverlayShown
    /\ dragMode = "none"
    /\ mode \in Handles
    /\ layout.scale # R(0)
    /\ Commit([Now EXCEPT
           !.dragMode = mode,
           !.dragStart = [@ EXCEPT !.cropX = Val(localCrop).x,
                                   !.cropY = Val(localCrop).y,
                                   !.cropW = Val(localCrop).width,
                                   !.cropH = Val(localCrop).height]])
    /\ last' = Mark("cropPointerDown")
    /\ UNCHANGED restVars

\* getLogoInteraction: what a pointer-down on the canvas can hit.  The
\* rotate and resize handles exist for the active logo only.
Hits ==
    {None} \cup
    {Some([id |-> localLogos[k].id, type |-> t]) :
        k \in 1..Len(localLogos), t \in {"body", "resize", "rotate"}}

HitPossible(hit) ==
    IF hit = None THEN TRUE
    ELSE Val(hit).type = "body" \/ Val(hit).id = activeLogoId

\* localLogos.find(l => l.id === id)
LogoOf(ls, id) == Val(Find(ls, id))

\* handleCanvasPointerDown.  In crop mode it changes nothing.
CanvasPointerDown(hit) ==
    /\ CanvasShown
    /\ dragMode = "none"
    /\ ~isCropMode
    /\ layout.scale # R(0)
    /\ RLt(R(0), layout.width)
    /\ hit \in Hits
    /\ HitPossible(hit)
    /\ IF hit = None
       THEN Commit([Now EXCEPT !.activeLogoId = 0])
       ELSE LET l == LogoOf(localLogos, Val(hit).id)
            IN  Commit([Now EXCEPT
                    !.activeLogoId = l.id,
                    !.dragMode = CASE Val(hit).type = "rotate" -> "rotate_logo"
                                   [] Val(hit).type = "resize" -> "scale_logo"
                                   [] OTHER -> "move_logo",
                    !.dragStart = [@ EXCEPT !.logoX = l.x, !.logoY = l.y,
                                            !.logoScale = l.scale,
                                            !.logoRotation = l.rotation]])
    /\ last' = Mark("canvasPointerDown")
    /\ UNCHANGED restVars

\* handlePointerMove with a button pressed, the pointer (px, py) away from
\* the pointer-down position; angle and factor are what a rotate or scale
\* drag computes from the pointer position.
PointerMove(px, py, angle, factor) ==
    /\ CanvasShown
    /\ dragMode # "none"
    /\ IF dragMode \in LogoModes /\ activeLogoId # 0
       THEN LET moved(l) ==
                    CASE dragMode = "move_logo" ->
                            LogoMove(l, dragStart, px, py, layout).logo
                      [] dragMode = "rotate_logo" -> LogoRotate(l, angle)
                      [] OTHER -> LogoScale(l, dragStart, factor)
            IN  Commit([Now EXCEPT
                    !.localLogos = MapPhoto(@, activeLogoId, moved),
                    !.snapGuides =
                        IF dragMode = "move_logo" /\ Find(localLogos, activeLogoId) # None
                        THEN LogoMove(LogoOf(localLogos, activeLogoId),
                                      dragStart, px, py, layout).guides
                        ELSE @])
       ELSE IF dragMode \in CropModes /\ localCrop # None /\ imgRef # None
            THEN Commit([Now EXCEPT !.localCrop =
                            Some(CropDrag(dragMode, dragStart, px, py,
                                          Val(imgRef), aspectRatio, layout))])
            ELSE Commit(Now)
    /\ last' = Mark("pointerMove")
    /\ UNCHANGED restVars

\* handlePointerMove with e.buttons === 0: "SAFETY ... stop drag"
PointerMoveNoButtons ==
    /\ CanvasShown
    /\ dragMode # "none"
    /\ Commit([Now EXCEPT !.dragMode = "none"])
    /\ last' = Mark("pointerMoveNoButtons")
    /\ UNCHANGED restVars

\* A pointer-up that commits the photo's crop instead of the live one.
UpCrop_Committed(lc, ph) == ph.crop

\* handlePointerUp: the crop it hands to onCommitCrop
UpCrop(lc, ph) == lc

\* handlePointerUp (also onPointerLeave): a logo drag ends with
\* onLogosChange(localLogos) (handleLogosChange: a push), any other drag with
\* onCommitCrop(localCrop) (handleCropCommit: a push).
PointerUp ==
    /\ CanvasShown
    /\ dragMode # "none"
    /\ Len(history) < cap
    /\ IF dragMode \in LogoModes
       THEN Commit([Now EXCEPT
                !.snapGuides = NoGuides,
                !.history = HistPush(@, index,
                                WithLogos(photos, selectedId, localLogos)),
                !.index = IndexPush(@),
                !.dragMode = "none"])
       ELSE Commit([Now EXCEPT
                !.history = HistPush(@, index,
                                WithCrop(photos, selectedId,
                                         UpCrop(localCrop, Val(selectedPhoto)))),
                !.index = IndexPush(@),
                !.dragMode = "none"])
    /\ last' = Mark("pointerUp")
    /\ UNCHANGED restVars

\* handleAddLogoToPhoto(url): the state after its pushHistory; id is the
\* uuid of the new layer
LogoAdded(s, id, url) ==
    [s EXCEPT
        !.history = HistPush(@, s.index,
            MapPhoto(s.history[s.index + 1], s.selectedId,
                     LAMBDA p : [p EXCEPT !.logos = Append(@, NewLogo(id, url))])),
        !.index = IndexPush(@)]

\* handleAddLogoToPhoto(url), from the Sidebar's logo assets
AddLogo(url) ==
    /\ SidebarShown
    /\ Len(history) < cap
    /\ nextId <= MaxPhotos + MaxLogos
    /\ nextId' = nextId + 1
    /\ Commit(LogoAdded(Now, nextId, url))
    /\ last' = Mark("addLogo")
    /\ UNCHANGED <<imports, isProcessing, batch, viewCount, revoked, cap>>

\* ---- handleAutoAdjust (the two modelled adjustment keys)
AutoAdjusted(p) ==
    [p EXCEPT !.adjustments = [@ EXCEPT !.exposure = 10, !.contrast = 15]]

AutoAdjust ==
    /\ SidebarShown
    /\ Len(history) < cap
    /\ Commit([Now EXCEPT
           !.history = HistPush(@, index, MapPhoto(photos, selectedId, AutoAdjusted)),
           !.index = IndexPush(@)])
    /\ last' = Mark("autoAdjust")
    /\ UNCHANGED restVars

\* ------------------------------------------------------ runBatchOperation
\* bounds of the batch specification
MaxBatch == 23          \* photos in the Collection of a batch
MaxBatchHist == 4       \* history snapshots of the batch specification
\* const chunkSize = 5
chunkSize == 5

\* handleBatchCrop: the crop the callback computes for a photo of
\* width x height as oriented by its rotation
BatchCropRect(width, height, targetRatio) ==
    IF RLt(targetRatio, Rat(width, height))
    THEN [x |-> RHalf(RSub(R(width), RMul(R(height), targetRatio))),
          y |-> R(0),
          width |-> RMul(R(height), targetRatio), height |-> R(height)]
    ELSE [x |-> R(0),
          y |-> RHalf(RSub(R(height), RDiv(R(width), targetRatio))),
          width |-> R(width), height |-> RDiv(R(width), targetRatio)]

\* handleBatchCrop: the callback, with the captured targetRatio
BatchCropped(p, targetRatio) ==
    [p EXCEPT !.crop =
        Some(IF p.rotation % 180 # 0
             THEN BatchCropRect(p.height, p.width, targetRatio)
             ELSE BatchCropRect(p.width, p.height, targetRatio))]

\* the callback of the batch: handleBatchApply's, with the captured
\* settings, or handleBatchCrop's (ratio is None for handleBatchApply)
BatchOp(b, p) ==
    IF b.ratio = None THEN [p EXCEPT !.adjustments = b.settings]
    ELSE BatchCropped(p, Val(b.ratio))

\* newPhotos after the callback has replaced the items from..to (1-based)
Processed(b, from, to) ==
    [k \in 1..Len(b.newPhotos) |->
        IF k >= from /\ k <= to THEN BatchOp(b, b.newPhotos[k]) ELSE b.newPhotos[k]]

\* handleBatchApply up to the first await of runBatchOperation:
\* setIsProcessing(true); newPhotos = [...photos].  The call keeps the
\* pushHistory (hence index) of the render it began in.  hist0 and index0
\* are ghosts: the history when the call began.
BatchApplyStart ==
    /\ SidebarShown
    /\ batch = None
    /\ Len(photos) # 0
    /\ isProcessing' = TRUE
    /\ batch' = Some([settings |-> Val(selectedPhoto).adjustments,
                      ratio |-> None,
                      newPhotos |-> photos,
                      total |-> Len(photos),
                      i |-> 0,
                      index |-> index,
                      pc |-> "run",
                      chunks |-> <<>>,
                      order |-> <<>>,
                      failedAt |-> 0,
                      hist0 |-> history,
                      index0 |-> index])
    /\ last' = Mark("batchStart")
    /\ UNCHANGED <<histVars, appVars, uiVars, viewVars, canvasVars, cap, filterCache>>

\* handleBatchCrop up to the first await of runBatchOperation; with 'Free'
\* it shows a toast and returns
BatchCropStart ==
    /\ SidebarShown
    /\ batch = None
    /\ Len(photos) # 0
    /\ getRatioValue(aspectRatio) # None
    /\ isProcessing' = TRUE
    /\ batch' = Some([settings |-> Val(selectedPhoto).adjustments,
                      ratio |-> getRatioValue(aspectRatio),
                      newPhotos |-> photos,
                      total |-> Len(photos),
                      i |-> 0,
                      index |-> index,
                      pc |-> "run",
                      chunks |-> <<>>,
                      order |-> <<>>,
                      failedAt |-> 0,
                      hist0 |-> history,
                      index0 |-> index])
    /\ last' = Mark("batchCropStart")
    /\ UNCHANGED <<histVars, appVars, uiVars, viewVars, canvasVars, cap, filterCache>>

\* A batch whose push happens although the callback threw.
BatchPushes_Always(b, end, throwAt) == end = b.total

\* runBatchOperation reaches pushHistory(newPhotos): the loop is over and no
\* await rejected
BatchPushes(b, end, throwAt) == throwAt = 0 /\ end = b.total

\* A loop that takes all the photos as one chunk.
ChunkEnd_Whole(b) == b.total

\* for (let j = i; j < Math.min(i + chunkSize, total); j++): the bound of j
ChunkEnd(b) == Min(b.i + chunkSize, b.total)

\* One turn of the outer loop, from the setTimeout callback to the next
\* await of a timer: the items i..end-1 go through the callback in order
\* (each await of its result is a microtask), then setProgress; after the
\* last chunk pushHistory(newPhotos) follows at once.  throwAt is the item
\* (1-based) on which the callback throws, 0 if it does not: the promise
\* rejects there and nothing after that await runs.
BatchChunk(throwAt) ==
    /\ Alive
    /\ batch # None
    /\ Val(batch).pc = "run"
    /\ LET b == Val(batch)
           end == ChunkEnd(b)
           done == IF throwAt = 0 THEN end ELSE throwAt - 1
           b2 == [b EXCEPT
                    !.newPhotos = Processed(b, b.i + 1, done),
                    !.order = @ \o [k \in 1..(done - b.i) |-> b.i + k],
                    !.chunks = IF throwAt = 0 THEN Append(@, end - b.i) ELSE @,
                    !.failedAt = throwAt,
                    !.i = end,
                    !.pc = IF throwAt # 0 THEN "failed"
                           ELSE IF end = b.total THEN "closing" ELSE "run"]
       IN  /\ throwAt = 0 \/ (throwAt > b.i /\ throwAt <= end)
           /\ BatchPushes(b, end, throwAt) => Len(history) < cap
           /\ batch' = Some(b2)
           /\ IF BatchPushes(b, end, throwAt)
              THEN Commit([Now EXCEPT
                       !.history = HistPush(@, b.index, b2.newPhotos),
                       !.index = IndexPush(@)])
              ELSE Commit(Now)
    /\ last' = GhostAsync("batchChunk")
    /\ UNCHANGED <<imports, nextId, isProcessing, viewCount, revoked, cap>>

\* "Small delay at 100% before closing": setIsProcessing(false)
BatchClose ==
    /\ Alive
    /\ batch # None
    /\ Val(batch).pc = "closing"
    /\ isProcessing' = FALSE
    /\ batch' = None
    /\ last' = GhostAsync("batchClose")
    /\ UNCHANGED <<histVars, appVars, uiVars, viewVars, canvasVars, cap, filterCache>>

\* -------------------------------------------------------- specifications
\* ---- the App: import, select, remove, rotate, undo, redo
Init ==
    /\ InitApp
    /\ cap = MaxAppHist

Next ==
    \/ \E n \in 1..MaxPhotos : \E ok \in SUBSET (1..MaxPhotos) : ImportStart(n, ok)
    \/ \E t \in imports : ImportFinish(t)
    \/ \E id \in 1..MaxPhotos : SelectPhoto(id)
    \/ \E id \in 1..MaxPhotos : RemovePhoto(id)
    \/ RotateRight
    \/ RotateLeft
    \/ Undo
    \/ Redo
    \/ \E j \in viewJobs : ViewJobDone(j)
    \/ \E j \in viewJobs : ViewJobNoBlob(j)
    \/ \E j \in loadJobs : ImgLoad(j)

Spec == Init /\ [][Next]_vars

\* The React state is the record s.
StateIs(s) ==
    /\ history = s.history
    /\ index = s.index
    /\ selectedId = s.selectedId
    /\ isCropMode = s.isCropMode
    /\ aspectRatio = s.aspectRatio
    /\ displayUrl = s.displayUrl
    /\ isGeneratingView = s.isGeneratingView
    /\ viewJobs = s.viewJobs
    /\ imgRef = s.imgRef
    /\ loadJobs = s.loadJobs
    /\ layout = s.layout
    /\ localCrop = s.localCrop
    /\ localLogos = s.localLogos
    /\ dragMode = s.dragMode
    /\ dragStart = s.dragStart
    /\ activeLogoId = s.activeLogoId
    /\ snapGuides = s.snapGuides
    /\ filterCache = s.filterCache

\* The React state after one processFiles call has imported n photos: the
\* first one is selected and its image is loaded.
ImportedState(n) ==
    [history |-> <<<<>>, NewPhotos(1..n)>>, index |-> 1, selectedId |-> 1,
     isCropMode |-> FALSE, aspectRatio |-> "Free",
     displayUrl |-> Some(OrigUrl(1)), isGeneratingView |-> FALSE,
     viewJobs |-> {}, imgRef |-> Some(UrlDims(OrigUrl(1))), loadJobs |-> {},
     layout |-> RenderLayout(InitLayout, UrlDims(OrigUrl(1)), FALSE, None,
                             Some(<<1, 0>>)),
     localCrop |-> None, localLogos |-> <<>>, dragMode |-> "none",
     dragStart |-> InitDragStart, activeLogoId |-> 0, snapGuides |-> NoGuides,
     filterCache |-> Drawn(Filtered([NoFilterCache EXCEPT !.image = Some(OrigUrl(1))],
                                    DEFAULT_ADJUSTMENTS, OrigUrl(1),
                                    TRUE, TRUE, TRUE, TRUE),
                           TRUE)]

\* The same after the crop toggle of the Sidebar.
CropModeOn(s) == Settle(s, [s EXCEPT !.isCropMode = TRUE])

\* The same after the image loads that are pending in s.
RECURSIVE AllLoaded(_)
AllLoaded(s) ==
    IF s.loadJobs = {} THEN s
    ELSE AllLoaded(Settle(s, Loaded(s, CHOOSE j \in s.loadJobs : TRUE)))

\* The React state after the import of n photos and the crop toggle: the
\* selected photo has the crop its loaded image gave it.
CroppingState(n) == AllLoaded(CropModeOn(ImportedState(n)))

\* The state of what is not React state after the import of n photos.
ImportedRest(n) ==
    /\ imports = {}
    /\ nextId = n + 1
    /\ isProcessing = FALSE
    /\ batch = None
    /\ viewCount = 0
    /\ revoked = {}
    /\ last = [op |-> "init", index |-> 1, len |-> 2, history |-> <<>>,
               selectedId |-> 0, localCrop |-> None, localLogos |-> <<>>,
               dragMode |-> "none", run |-> NoRun]

Imported(n) == StateIs(ImportedState(n)) /\ ImportedRest(n)

Cropping(n) == StateIs(CroppingState(n)) /\ ImportedRest(n)

\* The React state after the import of n photos and handleAddLogoToPhoto
\* on the selected one.
LogoState(n) ==
    AllLoaded(Settle(ImportedState(n),
                     LogoAdded(ImportedState(n), n + 1, <<"logo", 1>>)))

WithLogo(n) ==
    /\ StateIs(LogoState(n))
    /\ imports = {}
    /\ nextId = n + 2
    /\ isProcessing = FALSE
    /\ batch = None
    /\ viewCount = 0
    /\ revoked = {}
    /\ last = [op |-> "init", index |-> 2, len |-> 3, history |-> <<>>,
               selectedId |-> 0, localCrop |-> None, localLogos |-> <<>>,
               dragMode |-> "none", run |-> NoRun]

\* Every object URL a Photo of some snapshot holds as originalUrl or
\* thumbnailUrl.
ReferencedUrls ==
    UNION { UNION { {history[k][j].originalUrl, history[k][j].thumbnailUrl}
                    : j \in 1..Len(history[k]) }
            : k \in {k \in 1..Len(history) : history[k] # Hole} }

\* C8: no object URL referenced as originalUrl or thumbnailUrl by a Photo of
\* any snapshot (current, undo side or redo side) is ever revoked.
C8_NoReferencedUrlRevoked ==
    revoked \cap ReferencedUrls = {}


\* ---- a batch over the Collection: auto adjust, sync adjustments, undo, redo
InitBatch ==
    /\ \E n \in 1..MaxBatch : Imported(n)
    /\ cap = MaxBatchHist

NextBatch ==
    \/ AutoAdjust
    \/ Undo
    \/ Redo
    \/ BatchApplyStart
    \/ \E throwAt \in 0..MaxBatch : BatchChunk(throwAt)
    \/ BatchClose
    \/ \E j \in loadJobs : ImgLoad(j)

SpecBatch == InitBatch /\ [][NextBatch]_vars

\* C6: when the batch callback has thrown on item k of n, nothing was pushed
\* or set: the history and the index, hence the current Collection, are what
\* they were when the batch started, so no adjustment computed for the
\* items before k is in any snapshot.
C6_ThrowLeavesHistory ==
    (batch # None /\ Val(batch).pc = "failed") =>
        /\ history = Val(batch).hist0
        /\ index = Val(batch).index0
        /\ photos = Val(batch).hist0[Val(batch).index0 + 1]

\* The callback threw on an item after the first, and the adjustments
\* computed for the items before it differ from those of the Collection.
C6_Witness ==
    /\ batch # None
    /\ Val(batch).pc = "failed"
    /\ Val(batch).failedAt > 2
    /\ Val(batch).newPhotos[2] # photos[2]

\* the sizes of the chunks of a batch over n photos: 5, ..., 5 and the rest
ChunkSizes(n) ==
    [k \in 1..((n + chunkSize - 1) \div chunkSize) |->
        IF k * chunkSize <= n THEN chunkSize ELSE n - (k - 1) * chunkSize]

\* C7: a batch handles the photos in index order, chunk by chunk, each chunk
\* of 5 photos and the last one of the remainder (ceil(n/5) chunks; 5,5,5,5,3
\* for 23 photos); the history does not change before the last photo is
\* handled, and then there is exactly one push: one entry after the
\* snapshot that was current when the batch started.
C7_ChunkedThenOnePush ==
    batch # None =>
        LET b == Val(batch)
        IN  /\ \A k \in 1..Len(b.order) : b.order[k] = k
            /\ b.chunks = SubSeq(ChunkSizes(b.total), 1, Len(b.chunks))
            /\ b.pc = "run" => history = b.hist0 /\ index = b.index0
            /\ b.pc = "run" => Len(b.order) < b.total
            /\ b.pc = "closing" =>
                   /\ Len(b.order) = b.total
                   /\ b.chunks = ChunkSizes(b.total)
                   /\ b.total = 23 => b.chunks = <<5, 5, 5, 5, 3>>
                   /\ history = Append(SubSeq(b.hist0, 1, b.index0 + 1),
                                       [k \in 1..b.total |->
                                           BatchOp(b, b.hist0[b.index0 + 1][k])])
                   /\ index = b.index0 + 1
                   /\ b.index0 = Len(b.hist0) - 1 => Len(history) = Len(b.hist0) + 1

\* A batch over 23 photos, with settings that differ from the photos' own,
\* has pushed.
C7_Witness ==
    /\ batch # None
    /\ Val(batch).pc = "closing"
    /\ Val(batch).total = 23
    /\ Val(batch).chunks = <<5, 5, 5, 5, 3>>
    /\ Len(history) = Len(Val(batch).hist0) + 1
    /\ photos # Val(batch).hist0[Val(batch).index0 + 1]


\* ---- rotations of a photo in crop mode
MaxRotHist == 6         \* history snapshots of the rotation specification

InitRotate ==
    /\ \E n \in 1..MaxPhotos : Cropping(n)
    /\ cap = MaxRotHist

NextRotate ==
    \/ RotateRight
    \/ RotateLeft
    \/ \E j \in viewJobs : ViewJobDone(j)
    \/ \E j \in loadJobs : ImgLoad(j)

SpecRotate == InitRotate /\ [][NextRotate]_vars

\* C10: right after a rotation of the selected photo its rotation is one of
\* 0, 90, 180, 270 and it has no crop, and the history has exactly one entry
\* more after the snapshot the rotation started from; after the fourth
\* rotation in a row of the same photo in the same direction the rotation is
\* the one before the first of them, and the crop of before is not back.
C10_FourRotationsRestore ==
    last.op \in {"rotateRight", "rotateLeft"} =>
        /\ Val(selectedPhoto).rotation \in {0, 90, 180, 270}
        /\ Val(selectedPhoto).crop = None
        /\ index = last.index + 1
        /\ Len(history) = last.index + 2
        /\ last.run.n = 4 => Val(selectedPhoto).rotation = last.run.rot
        /\ \A k \in 1..Len(photos) :
               photos[k].id # selectedId => photos[k] = history[index][k]

\* The fourth rotation in a row of a photo that had a crop before the first.
C10_Witness ==
    /\ last.op = "rotateRight"
    /\ last.run.n = 4
    /\ last.run.crop # None
    /\ Val(selectedPhoto).rotation = last.run.rot


\* ---- the canvas: crop mode, crop drags and logo drags
MaxCommits == 1         \* pushes in a behaviour of the canvas specification

InitCanvas ==
    /\ Imported(MaxPhotos) \/ WithLogo(MaxPhotos)
    /\ cap = Len(history) + MaxCommits

NextCanvas ==
    \/ ToggleCropMode
    \/ \E mode \in CropModes : CropPointerDown(mode)
    \/ \E hit \in Hits : CanvasPointerDown(hit)
    \/ \E p \in Pointers : PointerMove(p.px, p.py, p.angle, p.factor)
    \/ PointerUp
    \/ \E url \in LogoUrls : AddLogo(url)
    \/ \E j \in loadJobs : ImgLoad(j)

SpecCanvas == InitCanvas /\ [][NextCanvas]_vars

\* C5: a pointer-down and a pointer-move of a crop or logo drag leave the
\* history and the index as they are; the pointer-up that ends the drag
\* pushes one entry, the current Collection with the dragged crop replaced by
\* the live localCrop (or the logos by the live localLogos) shown at that
\* moment.
C5_DragCommitsOnPointerUp ==
    [][ /\ last'.op \in {"cropPointerDown", "canvasPointerDown", "pointerMove"}
            => history' = history /\ index' = index
        /\ last'.op = "pointerUp"
            => /\ index' = index + 1
               /\ Len(history') = index + 2
               /\ SubSeq(history', 1, index + 1) = SubSeq(history, 1, index + 1)
               /\ history'[index + 2] =
                     IF dragMode \in LogoModes
                     THEN WithLogos(photos, selectedId, localLogos)
                     ELSE WithCrop(photos, selectedId, localCrop) ]_vars

\* A crop drag has ended with a pointer-up, and the crop it committed is not
\* the crop of the snapshot before.
C5_Witness ==
    /\ last.op = "pointerUp"
    /\ selectedPhoto # None
    /\ Val(selectedPhoto).crop # None
    /\ Val(selectedPhoto).crop # Val(Find(history[index], selectedId)).crop
    /\ Val(Find(history[index], selectedId)).crop # None

\* the width and height of a photo's image as oriented by its rotation
OrientedW(p) == IF p.rotation % 180 # 0 THEN ImgH(p.id) ELSE ImgW(p.id)
OrientedH(p) == IF p.rotation % 180 # 0 THEN ImgW(p.id) ELSE ImgH(p.id)

\* a crop lies within an image of w x h and is not empty
CropWithin(c, w, h) ==
    /\ RLt(R(0), c.width)
    /\ RLt(R(0), c.height)
    /\ RLe(R(0), c.x)
    /\ RLe(R(0), c.y)
    /\ RLe(RAdd(c.x, c.width), R(w))
    /\ RLe(RAdd(c.y, c.height), R(h))

\* C9: every crop of a photo of the current snapshot, and the live local
\* crop of the selected photo during a drag, is not empty and lies within
\* the photo's oriented image.
C9_CropsWithinImage ==
    Alive =>
        /\ \A k \in 1..Len(photos) :
               photos[k].crop # None =>
                   CropWithin(Val(photos[k].crop), OrientedW(photos[k]),
                              OrientedH(photos[k]))
        /\ (selectedPhoto # None /\ dragMode \in CropModes /\ localCrop # None) =>
               CropWithin(Val(localCrop), OrientedW(Val(selectedPhoto)),
                          OrientedH(Val(selectedPhoto)))

\* ---- a drag that loses its pointer-up
\* the pointer inputs that do not enlarge a logo
ReleasePointers == {p \in Pointers : RLe(p.factor, R(1))}

\* No drag has started yet: a behaviour of the release specification holds
\* one drag.
NoDragYet ==
    last.op \notin {"cropPointerDown", "canvasPointerDown", "pointerMove",
                    "pointerMoveNoButtons", "pointerUp"}

InitRelease ==
    /\ \/ Imported(MaxPhotos)
       \/ WithLogo(MaxPhotos)
       \/ Cropping(MaxPhotos)
    /\ cap = Len(history) + MaxCommits

NextRelease ==
    \/ \E mode \in CropModes : NoDragYet /\ CropPointerDown(mode)
    \/ \E hit \in Hits : NoDragYet /\ CanvasPointerDown(hit)
    \/ \E p \in ReleasePointers : PointerMove(p.px, p.py, p.angle, p.factor)
    \/ PointerMoveNoButtons
    \/ PointerUp
    \/ \E j \in loadJobs : ImgLoad(j)

SpecRelease == InitRelease /\ [][NextRelease]_vars

\* C11: a pointer-move with no button pressed during a drag does what a
\* pointer-up does: the mode becomes idle, one entry is pushed holding the
\* current Collection with the live crop (or the live logos) of the drag, and
\* the snap guides are cleared.
C11_NoButtonsIsPointerUp ==
    [][ (last'.op = "pointerMoveNoButtons" /\ Len(history) < cap)
            => /\ dragMode' = "none"
               /\ snapGuides' = NoGuides
               /\ index' = index + 1
               /\ Len(history') = index + 2
               /\ history'[index + 2] =
                     IF dragMode \in LogoModes
                     THEN WithLogos(photos, selectedId, localLogos)
                     ELSE WithCrop(photos, selectedId, localCrop) ]_vars

\* img.onload (image or logo): updateFilterCache() on the canvas at hand
FilterOnLoad ==
    /\ selectedPhoto # None
    /\ imgRef # None
    /\ \E o \in Outcomes :
           filterCache' = Drawn(Filtered([filterCache EXCEPT !.read = FALSE],
                                         Val(selectedPhoto).adjustments,
                                         Val(filterCache.image),
                                         o[1], o[2], o[3], o[4]),
                                TRUE)
    /\ last' = Mark("filterOnLoad")
    /\ UNCHANGED <<histVars, appVars, uiVars, batchVars, viewVars, canvasVars,
                   cap>>

\* onToggleGPU, then the effect on [updateFilterCache, renderCanvas, useGPU]:
\* a new canvas and updateFilterCache()
ToggleGPU ==
    /\ selectedPhoto # None
    /\ imgRef # None
    /\ \E o \in Outcomes :
           filterCache' = Drawn(Filtered(NewCanvas([filterCache EXCEPT
                                                       !.useGPU = ~@, !.read = FALSE]),
                                         Val(selectedPhoto).adjustments,
                                         Val(filterCache.image),
                                         o[1], o[2], o[3], o[4]),
                                TRUE)
    /\ last' = Mark("toggleGPU")
    /\ UNCHANGED <<histVars, appVars, uiVars, batchVars, viewVars, canvasVars,
                   cap>>

\* the adjustments the filter specification draws from: { exposure, contrast }
AdjustmentInputs ==
    {[exposure |-> 0, contrast |-> 0], [exposure |-> -80, contrast |-> 0],
     [exposure |-> 0, contrast |-> 100], [exposure |-> 0, contrast |-> 150],
     [exposure |-> 0, contrast |-> 259]}

\* One photo is imported and shown; its image has the channel value v and its
\* adjustments are adj.
FilterState(adj, v, gpu) ==
    [ImportedState(1) EXCEPT
        !.history = <<<<>>, <<[NewPhoto(1) EXCEPT !.adjustments = adj]>>>>,
        !.filterCache = Drawn(Filtered([FilterCacheOf(v, gpu) EXCEPT
                                           !.image = Some(OrigUrl(1))],
                                       adj, OrigUrl(1), TRUE, TRUE, TRUE, TRUE),
                              TRUE)]

InitFilter ==
    /\ \E adj \in AdjustmentInputs, v \in 0..maxVal, gpu \in BOOLEAN :
           StateIs(FilterState(adj, v, gpu))
    /\ imports = {}
    /\ nextId = 2
    /\ isProcessing = FALSE
    /\ batch = None
    /\ viewCount = 0
    /\ revoked = {}
    /\ cap = Len(history)
    /\ last = Mark("init")

NextFilter ==
    \/ FilterOnLoad
    \/ ToggleGPU

SpecFilter == InitFilter /\ [][NextFilter]_vars

\* C12: with DEFAULT_ADJUSTMENTS the CPU path stores, for every channel
\* value 0..255, the value the channel held.
C12_IdentityOnCpu ==
    (/\ selectedPhoto # None
     /\ Val(selectedPhoto).adjustments = DEFAULT_ADJUSTMENTS
     /\ ~filterCache.useGPU
     /\ filterCache.context = "2d")
        => filterCache.canvas = Some(filterCache.pixel)

\* C13: whenever the GPU path is selected and fails (no WebGL context, a
\* shader that does not compile, a program that does not link),
\* updateFilterCache ends with the cache valid and holding the CPU-filtered
\* pixel of the source image for the current adjustments, and the failure
\* is logged.
C13_GpuFailureFallsBackToCpu ==
    (/\ selectedPhoto # None
     /\ filterCache.useGPU
     /\ filterCache.failure # "none")
        => /\ filterCache.valid
           /\ filterCache.logged > 0
           /\ filterCache.canvas =
                  Some(applyImageFilters(filterCache.pixel,
                                         Val(selectedPhoto).adjustments))

\* an Adjustments with every value brought into -100..100
InRange(adj) ==
    [exposure |-> Max(-100, Min(100, adj.exposure)),
     contrast |-> Max(-100, Min(100, adj.contrast))]

\* C18: the CPU filter computes with the adjustments clamped to -100..100,
\* whatever values it is given, and its contrast factor is finite.
C18_AdjustmentsClamped ==
    (/\ selectedPhoto # None
     /\ ~filterCache.useGPU
     /\ filterCache.context = "2d")
        => /\ contrastFactor(Val(selectedPhoto).adjustments.contrast) # None
           /\ filterCache.canvas =
                  Some(applyImageFilters(filterCache.pixel,
                                         InRange(Val(selectedPhoto).adjustments)))

\* ---- logo snapping
MaxSnapCommits == 2     \* pushes in a behaviour of the snapping specification

\* pointer inputs of the snapping specification: small moves around the
\* pointer-down position, and a scale drag that makes the logo wider than
\* the viewport
SnapPointers ==
    { [px |-> 4, py |-> 0, angle |-> 0, factor |-> R(4)],
      [px |-> -8, py |-> 4, angle |-> 0, factor |-> R(1)],
      [px |-> 40, py |-> 0, angle |-> 0, factor |-> Rat(1, 2)] }

InitSnap ==
    /\ WithLogo(1)
    /\ cap = Len(history) + MaxSnapCommits

NextSnap ==
    \/ \E hit \in Hits : CanvasPointerDown(hit)
    \/ \E p \in SnapPointers : PointerMove(p.px, p.py, p.angle, p.factor)
    \/ PointerUp
    \/ \E j \in loadJobs : ImgLoad(j)

SpecSnap == InitSnap /\ [][NextSnap]_vars

\* the x a move_logo pointer-move by px starts from, before any snapping
UnsnappedX(px) == RAdd(dragStart.logoX, RDiv(R(px), layout.width))

\* C14: a pointer-move of a logo whose unsnapped x is less than 12 screen
\* pixels (12 / layout.width) away from 0.5 leaves the logo at x = 0.5
\* exactly, whatever the size of the logo.
C14_SnapsToCentre ==
    [][ \A p \in SnapPointers :
            (/\ last'.op = "pointerMove"
             /\ dragMode = "move_logo"
             /\ Find(localLogos, activeLogoId) # None
             /\ localLogos' = <<LogoMove(LogoOf(localLogos, activeLogoId),
                                         dragStart, p.px, p.py, layout).logo>>
             /\ RLt(RAbs(RSub(UnsnappedX(p.px), Rat(1, 2))),
                    RDiv(R(12), layout.width)))
                => LogoOf(localLogos', activeLogoId).x = Rat(1, 2) ]_vars

\* ---- the ratio lock of the crop
MaxRatioCommits == 1    \* pushes in a behaviour of the ratio specification

\* crops of a w x h image a drag can leave: the whole image, a rect in the
\* middle, a rect along the right edge and one in the top left corner
RatioCrops(w, h) ==
    { FullCrop(w, h),
      [x |-> R(10), y |-> R(20), width |-> R(100), height |-> R(50)],
      [x |-> R(w - 60), y |-> R(0), width |-> R(60), height |-> R(h)],
      [x |-> R(0), y |-> R(0), width |-> R(50), height |-> R(50)] }

\* The React state in crop mode with the selected photo's crop being c
RatioState(c) ==
    [CroppingState(MaxPhotos) EXCEPT
        !.history[2] = WithCrop(@, 1, Some(c)),
        !.localCrop = Some(c)]

InitRatio ==
    /\ \E c \in RatioCrops(ImgW(1), ImgH(1)) : StateIs(RatioState(c))
    /\ ImportedRest(MaxPhotos)
    /\ cap = Len(history) + MaxRatioCommits

\* A behaviour of the ratio specification leaves 'Free' once.
NextRatio ==
    \/ \E ar \in AspectRatios : aspectRatio = "Free" /\ SetAspectRatio(ar)
    \/ RotateRight
    \/ \E j \in viewJobs : ViewJobDone(j)
    \/ \E j \in loadJobs : ImgLoad(j)
    \/ BatchCropStart
    \/ BatchChunk(0)
    \/ BatchClose

SpecRatio == InitRatio /\ [][NextRatio]_vars

\* the ratios other than 'Free'
FixedRatios == {ar \in AspectRatios : getRatioValue(ar) # None}

\* the crops the ratio claims are checked on in a state: the live crop and
\* the crops of RatioCrops, those that lie within the loaded image
BaseCrops ==
    {c \in {Val(localCrop)} \cup RatioCrops(Val(imgRef).width, Val(imgRef).height) :
        CropWithin(c, Val(imgRef).width, Val(imgRef).height)}

RatioLocked(res, base, r, w, h) ==
    /\ res.width = RMul(res.height, r)
    /\ CropWithin(res, w, h)
    /\ (/\ RLe(RHalf(res.width), RAdd(base.x, RHalf(base.width)))
        /\ RLe(RAdd(RAdd(base.x, RHalf(base.width)), RHalf(res.width)), R(w))
        /\ RLe(RHalf(res.height), RAdd(base.y, RHalf(base.height)))
        /\ RLe(RAdd(RAdd(base.y, RHalf(base.height)), RHalf(res.height)), R(h)))
           => /\ RAdd(res.x, RHalf(res.width)) = RAdd(base.x, RHalf(base.width))
              /\ RAdd(res.y, RHalf(res.height)) = RAdd(base.y, RHalf(base.height))

\* the 3000 x 3000 square at (0, 500)
Square3000 == [x |-> R(0), y |-> R(500), width |-> R(3000), height |-> R(3000)]

\* C16: applyAspectRatio with a fixed ratio r gives a rect of ratio r within
\* the oriented image of the photo, centred where the crop was when it fits
\* there; for a 4000x3000 photo rotated by 90 (3000x4000) the ratio 1:1 on
\* the full rect gives 3000x3000 at x = 0, y = 500, through applyAspectRatio
\* and through the batch crop.
C16_RatioLockCentredInside ==
    /\ [][ (/\ last'.op = "setAspectRatio"
            /\ getRatioValue(aspectRatio') # None
            /\ selectedPhoto # None
            /\ localCrop # None /\ localCrop' # None)
               => RatioLocked(Val(localCrop'), Val(localCrop),
                              Val(getRatioValue(aspectRatio')),
                              OrientedW(Val(selectedPhoto)),
                              OrientedH(Val(selectedPhoto))) ]_vars
    /\ [](\A k \in 1..Len(photos) :
             (last.op = "batchChunk" /\ getRatioValue(aspectRatio) # None) =>
                 /\ photos[k].crop # None
                 /\ RatioLocked(Val(photos[k].crop),
                                FullCrop(OrientedW(photos[k]), OrientedH(photos[k])),
                                Val(getRatioValue(aspectRatio)),
                                OrientedW(photos[k]), OrientedH(photos[k])))
    /\ [](/\ applyAspectRatio(R(1), 3000, 4000, FullCrop(3000, 4000)) = Square3000
          /\ BatchCropped([NewPhoto(1) EXCEPT !.width = 4000, !.height = 3000,
                                              !.rotation = 90], R(1)).crop
                 = Some(Square3000))

\* ---- batch operations and exports: do they end
MaxExport == 6          \* photos of a behaviour of the processing specification
MaxProcessingHist == 4  \* snapshots of a behaviour of the processing specification

\* handleFinalExport up to its first await, for a config that names every
\* photo: setIsProcessing(true).  The call in flight is kept in `batch`.
ExportStart ==
    /\ ControlsUsable
    /\ batch = None
    /\ Len(photos) # 0
    /\ isProcessing' = TRUE
    /\ batch' = Some([settings |-> DEFAULT_ADJUSTMENTS,
                      ratio |-> None,
                      newPhotos |-> photos,
                      total |-> Len(photos),
                      i |-> 0,
                      index |-> index,
                      pc |-> "export",
                      chunks |-> <<>>,
                      order |-> <<>>,
                      failedAt |-> 0,
                      hist0 |-> history,
                      index0 |-> index])
    /\ last' = Mark("exportStart")
    /\ UNCHANGED <<histVars, appVars, uiVars, viewVars, canvasVars, cap, filterCache>>

\* what the image loads of one generateExportBlob can come to: every image
\* loads; the base image fails (img.onerror rejects); a logo image fails
\* (only onload is set: the await never settles)
ExportOutcomes(p) ==
    {"loaded", "baseError"} \cup (IF Len(p.logos) > 0 THEN {"logoError"} ELSE {})

\* processPhotoList: one photo through generateExportBlob.  A rejection is
\* caught by handleFinalExport, whose finally calls setIsProcessing(false);
\* so does the end of the list, after the zip.
ExportPhoto(outcome) ==
    /\ Alive
    /\ batch # None
    /\ Val(batch).pc = "export"
    /\ outcome \in ExportOutcomes(Val(batch).newPhotos[Val(batch).i + 1])
    /\ IF outcome = "logoError"
       THEN /\ batch' = Some([Val(batch) EXCEPT !.pc = "hung",
                                                !.failedAt = Val(batch).i + 1])
            /\ UNCHANGED isProcessing
       ELSE IF outcome = "baseError" \/ Val(batch).i + 1 = Val(batch).total
       THEN /\ batch' = None
            /\ isProcessing' = FALSE
       ELSE /\ batch' = Some([Val(batch) EXCEPT !.i = @ + 1])
            /\ UNCHANGED isProcessing
    /\ last' = GhostAsync("exportPhoto")
    /\ UNCHANGED <<histVars, appVars, uiVars, viewVars, canvasVars, cap, filterCache>>

\* n photos imported, the first with a logo
InitProcessing ==
    /\ \E n \in 1..MaxExport : WithLogo(n)
    /\ cap = MaxProcessingHist

NextProcessing ==
    \/ BatchApplyStart
    \/ \E throwAt \in 0..MaxExport : BatchChunk(throwAt)
    \/ BatchClose
    \/ ExportStart
    \/ \E outcome \in {"loaded", "baseError", "logoError"} : ExportPhoto(outcome)

\* The timers and the image loads a call waits for do come: a step that can
\* be taken is taken.
SpecProcessing ==
    InitProcessing /\ [][NextProcessing]_vars /\ WF_vars(NextProcessing)

\* C17: every batch operation and every export that has started is followed
\* by a state in which processing is no longer in progress, also when the
\* batch callback throws and when a logo image of an exported photo fails
\* to load.
C17_ProcessingEnds == isProcessing ~> ~isProcessing

\* ---- the three renderers: what each frames
\* Lengths are in pixels of the oriented image; the whole-pixel sizes of the
\* canvases are left out.  A framing is the viewport, the point of the
\* oriented image at the viewport's top left corner (straighten is 0), the
\* size and rotation of the oriented image, and for each logo in paint
\* order its centre, height and width in the viewport.
LogoFraming(ls, vw, vh) ==
    [k \in 1..Len(ls) |->
        [url |-> ls[k].url,
         cx |-> RMul(ls[k].x, vw),
         cy |-> RMul(ls[k].y, vh),
         renderH |-> RMul(RMin(vw, vh), ls[k].scale),
         renderW |-> RMul(RMul(RMin(vw, vh), ls[k].scale), LogoAspect(ls[k].url)),
         rotation |-> ls[k].rotation]]

Framing(c, effW, effH, rot, ls) ==
    [viewport |-> [width |-> c.width, height |-> c.height],
     origin |-> [x |-> c.x, y |-> c.y],
     image |-> [width |-> effW, height |-> effH],
     rotation |-> rot,
     logos |-> LogoFraming(ls, c.width, c.height)]

\* the rotation of the image a display URL shows: the original, or a
\* rotated view of it
UrlRotation(url) == IF url[1] = "orig" THEN 0 ELSE url[4]

\* renderCanvas: the loaded image is drawn as it is (a rotated view has the
\* orientation in its pixels); in crop mode the viewport is the whole image
PreviewFraming ==
    Framing(IF isCropMode \/ Val(selectedPhoto).crop = None
            THEN FullCrop(Val(imgRef).width, Val(imgRef).height)
            ELSE Val(Val(selectedPhoto).crop),
            Val(imgRef).width, Val(imgRef).height,
            UrlRotation(Val(displayUrl)), localLogos)

\* ThumbnailCanvas: effW and effH from photo.width, photo.height and
\* photo.rotation
ThumbFraming(p) ==
    Framing(IF p.crop = None
            THEN FullCrop(IF p.rotation % 180 # 0 THEN p.height ELSE p.width,
                          IF p.rotation % 180 # 0 THEN p.width ELSE p.height)
            ELSE Val(p.crop),
            IF p.rotation % 180 # 0 THEN p.height ELSE p.width,
            IF p.rotation % 180 # 0 THEN p.width ELSE p.height,
            p.rotation, p.logos)

\* generateExportBlob: baseW and baseH from the image loaded from
\* photo.originalUrl and photo.rotation
ExportFraming(p) ==
    Framing(IF p.crop = None
            THEN FullCrop(IF p.rotation % 180 # 0
                          THEN UrlDims(p.originalUrl).height
                          ELSE UrlDims(p.originalUrl).width,
                          IF p.rotation % 180 # 0
                          THEN UrlDims(p.originalUrl).width
                          ELSE UrlDims(p.originalUrl).height)
            ELSE Val(p.crop),
            IF p.rotation % 180 # 0 THEN UrlDims(p.originalUrl).height
            ELSE UrlDims(p.originalUrl).width,
            IF p.rotation % 180 # 0 THEN UrlDims(p.originalUrl).width
            ELSE UrlDims(p.originalUrl).height,
            p.rotation, p.logos)

\* C19: for the selected photo, outside crop mode and with no drag under
\* way, the live preview, the thumbnail renderer and generateExportBlob
\* frame the same: the same viewport (the crop, else the full oriented
\* rect), the same placement and orientation of the image in it, and each
\* logo at (x * viewport width, y * viewport height) with height
\* scale * min(viewport width, viewport height), in array order.
C19_RenderersFrameAlike ==
    (/\ CanvasShown
     /\ imgRef # None /\ displayUrl # None
     /\ ~isCropMode
     /\ dragMode = "none")
        => /\ ThumbFraming(Val(selectedPhoto)) = ExportFraming(Val(selectedPhoto))
           /\ PreviewFraming = ExportFraming(Val(selectedPhoto))

\* ---- Sidebar sliders: handleAdjustmentChange, handleAdjustmentCommit
\* photos.map(p => p.id === selectedId
\*                 ? { ...p, adjustments: { ...p.adjustments, [key]: value } } : p)
WithAdjustment(ps, id, key, value) ==
    MapPhoto(ps, id, LAMBDA p : [p EXCEPT !.adjustments[key] = value])

\* ghost: the index, the length and the history a slider gesture starts from
GestureStart ==
    IF last.op = "adjustmentChange" THEN last
    ELSE [Mark("adjustmentChange") EXCEPT !.history = history]

\* Slider onChange: handleAdjustmentChange(key, Number(e.target.value)),
\* whose setPhotos is the history's set
AdjustmentChange(key, value) ==
    /\ SidebarShown
    /\ selectedId # 0
    /\ Commit([Now EXCEPT
           !.history = HistSet(@, index, WithAdjustment(photos, selectedId, key, value))])
    /\ last' = GestureStart
    /\ UNCHANGED restVars

\* Slider onPointerUp / onKeyUp: handleAdjustmentCommit, pushHistory(photos)
AdjustmentCommit ==
    /\ SidebarShown
    /\ Len(history) < cap
    /\ Commit([Now EXCEPT
           !.history = HistPush(@, index, photos),
           !.index = IndexPush(@)])
    /\ last' = IF last.op = "adjustmentChange"
               THEN [last EXCEPT !.op = "adjustmentCommit"]
               ELSE Mark("adjustmentCommit")
    /\ UNCHANGED restVars

MaxGestures == 1        \* slider commits
AdjustmentKeys == {"exposure", "contrast"}
AdjustmentValues == {-100, 50}

InitAdjust ==
    /\ \E n \in 1..MaxPhotos : Imported(n)
    /\ cap = Len(history) + MaxGestures

NextAdjust ==
    \/ \E key \in AdjustmentKeys, value \in AdjustmentValues :
          AdjustmentChange(key, value)
    \/ AdjustmentCommit
    \/ Undo
    \/ Redo
    \/ \E j \in loadJobs : ImgLoad(j)

SpecAdjust == InitAdjust /\ [][NextAdjust]_vars

\* C20: after a slider gesture on the selected photo (handleAdjustmentChange
\* once or more, then handleAdjustmentCommit) exactly one history entry has
\* been added after the snapshot the gesture started at, and one undo gives
\* back the Collection of before the gesture.
C20_GestureIsOneUndoStep ==
    /\ [](last.op = "adjustmentCommit" /\ last.history # <<>>
            => /\ index = last.index + 1
               /\ Len(history) = last.index + 2)
    /\ [][last.op = "adjustmentCommit" /\ last.history # <<>> /\ last'.op = "undo"
            => photos' = last.history[last.index + 1]]_vars

\* C21: in every reachable state 0 <= index < Len(history) and the current
\* state history[index] is a Collection, whatever the interleaving of the
\* history operations, a push issued by processFiles with the pushHistory
\* of the render it began in included.
C21_IndexWithinHistory ==
    /\ 0 <= index
    /\ index < Len(history)
    /\ history[index + 1] # Hole

\* the operations in flight: processFiles calls, and the batch or export
InFlight == Cardinality(imports) + (IF batch = None THEN 0 ELSE 1)

\* C22: at most one mutating operation is active at a time: while an
\* import, a batch or an export is in flight, the history and the index
\* change only by a step of that one operation, never by an interactive
\* edit, an undo, a redo, a removal or a second import or batch.
C22_OneMutatorAtATime ==
    /\ [](InFlight <= 1)
    /\ [][InFlight > 0 /\ <<history, index>>' # <<history, index>>
            => \/ batch = None /\ last'.op = "importFinish"
               \/ imports = {} /\ last'.op \in {"batchChunk", "batchClose", "exportPhoto"}]_vars

\* ---- the filter cache: what it was built from
\* the photo id and the rotation an object URL shows: a photo's file, or a
\* rotated view of it
SourceOf(url) == IF url[1] = "orig" THEN <<url[2], 0>> ELSE <<url[3], url[4]>>

\* C23: whenever renderCanvas takes the filtered canvas as its source
\* (the cache is marked valid), the canvas was drawn from the image of the
\* photo on display, in its rotation, and with that photo's adjustments,
\* between a selection or a rotation and the load of the new image too.
C23_CacheIsCurrent ==
    (/\ selectedPhoto # None
     /\ filterCache.valid
     /\ filterCache.read)
        => /\ filterCache.source # None
           /\ SourceOf(Val(filterCache.source))
                  = <<Val(selectedPhoto).id, Val(selectedPhoto).rotation>>
           /\ filterCache.adjustments = Some(Val(selectedPhoto).adjustments)

\* a photo without its overlays
Underlay(p) == [p EXCEPT !.logos = <<>>]

\* a step that touches only overlays: the logos of the selected photo, the
\* live logos or the active logo change, while the photo is otherwise the
\* same, the same image is loaded and crop mode stays as it is
OverlayOnlyStep ==
    /\ selectedPhoto # None /\ selectedPhoto' # None
    /\ Underlay(Val(selectedPhoto)') = Underlay(Val(selectedPhoto))
    /\ imgRef # None /\ imgRef' = imgRef
    /\ isCropMode' = isCropMode
    /\ localCrop' = localCrop
    /\ \/ localLogos' # localLogos
       \/ activeLogoId' # activeLogoId
       \/ Val(selectedPhoto).logos' # Val(selectedPhoto).logos

\* C24: a change that touches only overlays (a logo moved, scaled, rotated,
\* added or selected) never re-runs the filter stage: updateFilterCache is
\* not called and the filtered canvas is the one of before.
C24_OverlaysReuseCache ==
    [][OverlayOnlyStep
          => /\ ~filterCache'.built
             /\ filterCache'.canvas = filterCache.canvas
             /\ filterCache'.context = filterCache.context]_vars

\* ---- crop resize drags, free and ratio-locked
MaxResizeCommits == 1   \* pushes in a behaviour of the resize specification

InitResize ==
    /\ Cropping(MaxPhotos)
    /\ cap = Len(history) + MaxResizeCommits

NextResize ==
    \/ \E ar \in AspectRatios : aspectRatio = "Free" /\ SetAspectRatio(ar)
    \/ \E mode \in CropModes : NoDragYet /\ CropPointerDown(mode)
    \/ \E p \in Pointers : PointerMove(p.px, p.py, p.angle, p.factor)
    \/ PointerUp
    \/ \E j \in loadJobs : ImgLoad(j)

SpecResize == InitResize /\ [][NextResize]_vars

\* a pointer-move of a crop resize drag
ResizeMove ==
    /\ last'.op = "pointerMove"
    /\ dragMode \in CropModes \ {"move_crop"}
    /\ localCrop # None /\ localCrop' # None
    /\ imgRef # None

\* C25: during a crop resize with a fixed ratio selected, after every
\* pointer-move the live crop has width / height equal to the ratio and
\* lies within the image, also when the drag pushes the rect against an
\* image edge.
C25_ResizeKeepsRatioInside ==
    [][ResizeMove /\ getRatioValue(aspectRatio) # None
          => /\ RDiv(Val(localCrop').width, Val(localCrop').height)
                    = Val(getRatioValue(aspectRatio))
             /\ RLe(R(0), Val(localCrop').x)
             /\ RLe(R(0), Val(localCrop').y)
             /\ RLe(RAdd(Val(localCrop').x, Val(localCrop').width),
                    R(Val(imgRef).width))
             /\ RLe(RAdd(Val(localCrop').y, Val(localCrop').height),
                    R(Val(imgRef).height))]_vars

\* C26: during a crop resize by a handle the edges opposite to the handle
\* stay where they were at the start of the drag after every pointer-move:
\* a west handle keeps x + width, a north handle y + height, an east
\* handle x, a south handle y, also at a bound and at the minimum size.
C26_OppositeEdgesFixed ==
    [][ResizeMove
          => /\ "w" \in Sides(dragMode)
                    => RAdd(Val(localCrop').x, Val(localCrop').width)
                           = RAdd(dragStart.cropX, dragStart.cropW)
             /\ "n" \in Sides(dragMode)
                    => RAdd(Val(localCrop').y, Val(localCrop').height)
                           = RAdd(dragStart.cropY, dragStart.cropH)
             /\ "e" \in Sides(dragMode) => Val(localCrop').x = dragStart.cropX
             /\ "s" \in Sides(dragMode) => Val(localCrop').y = dragStart.cropY]_vars

\* ---- the hit test of a pointer-down on the canvas
\* isNear(x, y, tx, ty, dist): Math.sqrt(dx^2 + dy^2) < dist
isNear(x, y, tx, ty, dist) ==
    RLt(RAdd(RMul(RSub(x, tx), RSub(x, tx)), RMul(RSub(y, ty), RSub(y, ty))),
        R(dist * dist))

\* getLogoInteraction, one turn of its loop for a logo that is not rotated:
\* (lx, ly) is the pointer relative to the logo's centre, (halfW, halfH) half
\* the rendered size.  None: the loop goes on.
HitAt(l, active, lx, ly, halfW, halfH) ==
    IF active = l.id /\ isNear(lx, ly, R(0), RSub(RNeg(halfH), R(25)), 15)
    THEN Some([id |-> l.id, type |-> "rotate"])
    ELSE IF /\ active = l.id
            /\ \/ isNear(lx, ly, RNeg(halfW), RNeg(halfH), 15)
               \/ isNear(lx, ly, halfW, RNeg(halfH), 15)
               \/ isNear(lx, ly, RNeg(halfW), halfH, 15)
               \/ isNear(lx, ly, halfW, halfH, 15)
    THEN Some([id |-> l.id, type |-> "resize"])
    ELSE IF /\ RLe(RNeg(halfW), lx) /\ RLe(lx, halfW)
            /\ RLe(RNeg(halfH), ly) /\ RLe(ly, halfH)
    THEN Some([id |-> l.id, type |-> "body"])
    ELSE None

\* half of renderH = minDim * logo.scale, and of renderW = renderH * aspect
LogoHalfH(l, lay) == RHalf(RMul(RMin(lay.width, lay.height), l.scale))
LogoHalfW(l, lay) == RMul(LogoHalfH(l, lay), LogoAspect(l.url))

HitOn(l, active, lay, x, y) ==
    HitAt(l, active, RSub(x, RMul(l.x, lay.width)), RSub(y, RMul(l.y, lay.height)),
          LogoHalfW(l, lay), LogoHalfH(l, lay))

\* getLogoInteraction(x, y): for (let i = localLogos.length - 1; i >= 0; i--)
RECURSIVE LogoLoop(_, _, _, _, _, _)
LogoLoop(ls, i, active, lay, x, y) ==
    IF i = 0 THEN None
    ELSE IF HitOn(ls[i], active, lay, x, y) # None
    THEN HitOn(ls[i], active, lay, x, y)
    ELSE LogoLoop(ls, i - 1, active, lay, x, y)

getLogoInteraction(ls, active, lay, x, y) == LogoLoop(ls, Len(ls), active, lay, x, y)

\* handleCanvasPointerDown with the pointer at (x, y) of the canvas
CanvasPointerDownAt(x, y) ==
    CanvasPointerDown(getLogoInteraction(localLogos, activeLogoId, layout, R(x), R(y)))

MaxHitCommits == 3      \* pushes in a behaviour of the hit-test specification
\* where the pointer goes down: the centre of the canvas, left of it, the
\* corner and the rotate handle of a logo at the centre, and an empty place
HitPoints == {<<100, 75>>, <<80, 75>>, <<130, 60>>, <<100, 35>>, <<10, 10>>}
\* a drag to the right, and a pointer that has not moved
HitPointers ==
    { [px |-> 40, py |-> 0, angle |-> 0, factor |-> R(1)],
      [px |-> 0, py |-> 0, angle |-> 0, factor |-> R(1)] }

InitHit ==
    /\ WithLogo(1)
    /\ cap = Len(history) + MaxHitCommits

NextHit ==
    \/ \E url \in LogoUrls : AddLogo(url)
    \/ \E pt \in HitPoints : CanvasPointerDownAt(pt[1], pt[2])
    \/ \E p \in HitPointers : PointerMove(p.px, p.py, p.angle, p.factor)
    \/ PointerUp
    \/ \E j \in loadJobs : ImgLoad(j)

SpecHit == InitHit /\ [][NextHit]_vars

\* the hit by priority: the active logo's rotate handle, else one of its
\* resize handles, else its body, else the topmost other logo whose body
\* holds the pointer
ActiveHit(ls, active, lay, x, y) ==
    IF Find(ls, active) = None THEN None
    ELSE HitOn(LogoOf(ls, active), active, lay, x, y)

PriorityHit(ls, active, lay, x, y) ==
    IF ActiveHit(ls, active, lay, x, y) # None
    THEN ActiveHit(ls, active, lay, x, y)
    ELSE getLogoInteraction(ls, 0, lay, x, y)

\* C27: outside crop mode the hit test of a pointer-down gives the active
\* logo's rotate handle if the pointer is on it, else one of its resize
\* handles, else its body, and only then the topmost other logo that holds
\* the pointer, also when a logo painted above the active one holds it.
C27_ActiveLogoFirst ==
    (CanvasShown /\ ~isCropMode /\ dragMode = "none" /\ RLt(R(0), layout.width))
        => \A pt \in HitPoints :
              getLogoInteraction(localLogos, activeLogoId, layout, R(pt[1]), R(pt[2]))
                  = PriorityHit(localLogos, activeLogoId, layout, R(pt[1]), R(pt[2]))

\* ---- Sidebar resets: Slider onReset and the Reset button of a section
\* onChange(key, 0) for the keys in order, then onCommit(), all in one
\* event: every handleAdjustmentChange maps the photos of the render the
\* event began in and hands the result to the history's set, and
\* handleAdjustmentCommit pushes the photos of that same render.
RECURSIVE SetEach(_, _, _, _, _)
SetEach(prev, cIndex, ps, id, keys) ==
    IF keys = <<>> THEN prev
    ELSE SetEach(HistSet(prev, cIndex, WithAdjustment(ps, id, Head(keys), 0)),
                 cIndex, ps, id, Tail(keys))

\* the handlers of one reset event, keys being the keys it passes to onChange
ResetEvent(keys, op) ==
    /\ SidebarShown
    /\ selectedId # 0
    /\ Len(history) < cap
    /\ Commit([Now EXCEPT
           !.history = HistPush(SetEach(@, index, photos, selectedId, keys),
                                index, photos),
           !.index = IndexPush(@)])
    /\ last' = Mark(op)
    /\ UNCHANGED restVars

\* Slider onReset: () => { onChange(key, 0); onCommit(); }
SliderReset(key) == ResetEvent(<<key>>, "reset " \o key)

\* the Reset of the Light section: onChange('exposure', 0);
\* onChange('contrast', 0); onCommit()
LightKeys == <<"exposure", "contrast">>
SectionReset == ResetEvent(LightKeys, "reset Light")

MaxResets == 1          \* history entries added in the reset specification

InitReset ==
    /\ \E n \in 1..MaxPhotos : Imported(n)
    /\ cap = Len(history) + MaxResets

NextReset ==
    \/ \E key \in AdjustmentKeys, value \in AdjustmentValues :
          AdjustmentChange(key, value)
    \/ AdjustmentCommit
    \/ \E key \in AdjustmentKeys : SliderReset(key)
    \/ SectionReset
    \/ Undo
    \/ \E j \in loadJobs : ImgLoad(j)

SpecReset == InitReset /\ [][NextReset]_vars

\* the keys a reset targets, from the ghost of the event
ResetKeys(op) ==
    IF op = "reset Light" THEN {"exposure", "contrast"}
    ELSE {key \in AdjustmentKeys : op = "reset " \o key}

\* C28: after a reset event of the sidebar (a slider's onReset, or the Reset
\* of a section) every adjustment the event targets is 0 for the selected
\* photo in the current Collection.
C28_ResetZeroes ==
    [][\A key \in ResetKeys(last'.op) :
          Defined' /\ selectedPhoto' # None
              /\ Val(selectedPhoto').adjustments[key] = 0]_vars

\* C29: whenever selectedId is non-null it is the id of a Photo of the
\* current Collection, after any sequence of import, select, remove-photo,
\* undo and redo.
C29_SelectedIsInCollection ==
    selectedId # 0 => Defined /\ selectedId \in Ids(photos)

\* ---- logo drags: move, scale and rotate, several in a row
MaxLogoCommits == 3     \* pushes in a behaviour of the logo drag specification

\* pointer inputs of the logo drag specification: a move towards the right
\* edge with a scale drag away from the centre, a move towards the top left
\* corner with a scale drag onto the centre, and a quarter turn
LogoPointers ==
    { [px |-> 160, py |-> 0, angle |-> 0, factor |-> R(4)],
      [px |-> -160, py |-> -160, angle |-> 90, factor |-> Rat(1, 100)] }

InitLogo ==
    /\ WithLogo(1)
    /\ cap = Len(history) + MaxLogoCommits

NextLogo ==
    \/ \E hit \in Hits : CanvasPointerDown(hit)
    \/ \E p \in LogoPointers : PointerMove(p.px, p.py, p.angle, p.factor)
    \/ PointerUp
    \/ \E j \in loadJobs : ImgLoad(j)

SpecLogo == InitLogo /\ [][NextLogo]_vars

\* the layer lies on the photo and is not smaller than the floor of
\* scale_logo
LogoInRange(l) ==
    /\ RLe(R(0), l.x) /\ RLe(l.x, R(1))
    /\ RLe(R(0), l.y) /\ RLe(l.y, R(1))
    /\ RLe(Rat(1, 50), l.scale)

\* C30: after any sequence of logo move, scale and rotate drags, every
\* logo of the photo, in the Collection and on the canvas, has x and y
\* within [0, 1] and scale >= 0.02.
C30_LogosInRange ==
    (Defined /\ selectedPhoto # None)
        => /\ \A k \in 1..Len(Val(selectedPhoto).logos) :
                 LogoInRange(Val(selectedPhoto).logos[k])
           /\ CanvasShown
                 => \A k \in 1..Len(localLogos) : LogoInRange(localLogos[k])

====
